---- MODULE Spec2Model ----
(***************************************************************************)
(* Verification model of ServerForge (package svforge): the secure path    *)
(* allocator, the server constructors, the installation pipeline and the   *)
(* resolver cache.                                                         *)
(*                                                                         *)
(* A string is a TLA+ string; a path is a sequence of component strings    *)
(* (an absolute pathlib.Path without its leading "/").  The file system    *)
(* is a function from the paths that exist to their node.                  *)
(***************************************************************************)
EXTENDS Integers, Sequences, FiniteSets, TLC

VARIABLES
  fs,        \* the host file system: path -> node
  last,      \* the last PathManager / validator call and its result
  ncalls,    \* number of calls made so far (bounded by MaxCalls)
  returned,  \* (server_type, version, directory) handed out by find_available_server_directory
  server,    \* the server object of this process
  requests,  \* network requests issued so far
  java,      \* the Java toolchain found on the host
  run,       \* the state of BaseServer.install
  api,       \* the _cache dictionary of each API client
  known,     \* (family, version, payload) of the successful lookups not cleared since
  events,    \* what the last acquisition did, in order
  download,  \* the download_file call in progress and its destination file
  files,     \* the text of the files the create_* methods generate
  installers, \* concurrent Spigot installs of one version and the jar cache they share
  compile    \* the working directory of the process and its compile_spigot calls

vars == <<fs, last, ncalls, returned, server, requests, java, run, api, known, events, download, files,
         installers, compile>>

allocVars == <<ncalls, returned>>
installVars == <<server, requests, java, run, events>>
cacheVars == <<api, known>>
ioVars == <<download, files, installers, compile>>

----------------------------------------------------------------------------
(* Strings                                                                 *)

Lowercase == "abcdefghijklmnopqrstuvwxyz"
Uppercase == "ABCDEFGHIJKLMNOPQRSTUVWXYZ"
Digits == "0123456789"

CharAt(s, i) == SubSeq(s, i, i)
CharsOf(s) == {CharAt(s, i) : i \in 1..Len(s)}

\* str.startswith
StartsWith(s, prefix) ==
  /\ Len(prefix) <= Len(s)
  /\ SubSeq(s, 1, Len(prefix)) = prefix

\* str.upper on one character
UpperOf == [c \in CharsOf(Lowercase) |->
              CharAt(Uppercase, CHOOSE i \in 1..Len(Lowercase) : CharAt(Lowercase, i) = c)]

UpperChar(c) == IF c \in DOMAIN UpperOf THEN UpperOf[c] ELSE c

RECURSIVE Upper(_)
Upper(s) == IF s = "" THEN "" ELSE UpperChar(CharAt(s, 1)) \o Upper(SubSeq(s, 2, Len(s)))

\* the character class [a-zA-Z0-9._-]
NameChars == CharsOf(Lowercase) \cup CharsOf(Uppercase) \cup CharsOf(Digits) \cup {".", "_", "-"}

\* re.match(r'^[a-zA-Z0-9._-]+$', name): "$" also matches before one trailing newline
MatchesNamePattern(name) ==
  LET body == IF Len(name) >= 1 /\ CharAt(name, Len(name)) = "\n"
              THEN SubSeq(name, 1, Len(name) - 1) ELSE name
  IN /\ Len(body) >= 1
     /\ CharsOf(body) \subseteq NameChars

RESERVED_NAMES ==
  {"CON", "PRN", "AUX", "NUL", "COM1", "COM2", "COM3", "COM4", "COM5",
   "COM6", "COM7", "COM8", "COM9", "LPT1", "LPT2", "LPT3", "LPT4",
   "LPT5", "LPT6", "LPT7", "LPT8", "LPT9"}

MaxNameLength == 100

\* SecurePathValidator.validate_server_name
validate_server_name(name) ==
  /\ name # ""
  /\ MatchesNamePattern(name)
  /\ ~StartsWith(name, ".")
  /\ Upper(name) \notin RESERVED_NAMES
  /\ Len(name) <= MaxNameLength

\* re.sub(r'[^\w._-]', '', component)
RECURSIVE StripUnsafe(_)
StripUnsafe(s) ==
  IF s = "" THEN ""
  ELSE (IF CharAt(s, 1) \in NameChars THEN CharAt(s, 1) ELSE "")
       \o StripUnsafe(SubSeq(s, 2, Len(s)))

\* SecurePathValidator.sanitize_path_component: [ok, value]
sanitize_path_component(component) ==
  IF ~validate_server_name(component) THEN [ok |-> FALSE, value |-> ""]
  ELSE LET sanitized == StripUnsafe(component)
       IN IF sanitized = "" THEN [ok |-> FALSE, value |-> ""]
          ELSE [ok |-> TRUE, value |-> sanitized]

----------------------------------------------------------------------------
(* Paths and the file system                                               *)

Dir == [type |-> "dir", target |-> <<>>]
File == [type |-> "file", target |-> <<>>]
Link(t) == [type |-> "link", target |-> t]

\* str(path)
RECURSIVE PathStr(_)
PathStr(p) ==
  IF p = <<>> THEN "/"
  ELSE IF Len(p) = 1 THEN "/" \o p[1]
  ELSE PathStr(SubSeq(p, 1, Len(p) - 1)) \o "/" \o p[Len(p)]

Parent(p) == IF p = <<>> THEN <<>> ELSE SubSeq(p, 1, Len(p) - 1)

\* component-wise containment: p is root or lies below it
IsWithin(p, root) ==
  /\ Len(root) <= Len(p)
  /\ SubSeq(p, 1, Len(root)) = root

\* Path.resolve(): follow symbolic links, fold "." and "..", keep the rest
RECURSIVE ResolveWalk(_, _, _)
ResolveWalk(f, cur, rest) ==
  IF rest = <<>> THEN cur
  ELSE LET c == Head(rest)
           nxt == Append(cur, c)
       IN IF c = "." THEN ResolveWalk(f, cur, Tail(rest))
          ELSE IF c = ".." THEN ResolveWalk(f, Parent(cur), Tail(rest))
          ELSE IF nxt \in DOMAIN f /\ f[nxt].type = "link"
               THEN ResolveWalk(f, <<>>, f[nxt].target \o Tail(rest))
          ELSE ResolveWalk(f, nxt, Tail(rest))

Resolve(f, p) == ResolveWalk(f, <<>>, p)

Prefixes(p) == {SubSeq(p, 1, k) : k \in 1..Len(p)}

\* entries directly inside directory p
Entries(f, p) == {q \in DOMAIN f : Len(q) = Len(p) + 1 /\ SubSeq(q, 1, Len(p)) = p}

\* any(path.iterdir()) is false
IsEmptyDir(f, p) ==
  /\ p \in DOMAIN f
  /\ f[p].type = "dir"
  /\ ~\E q \in DOMAIN f : q # <<>> /\ Parent(q) = p

\* Path.mkdir(parents=True, exist_ok=True): [ok, fs]
MkdirP(f, p) ==
  LET q == Resolve(f, p)
  IN IF \E pre \in Prefixes(q) : pre \in DOMAIN f /\ f[pre].type = "file"
     THEN [ok |-> FALSE, fs |-> f]
     ELSE IF Prefixes(q) \subseteq DOMAIN f THEN [ok |-> TRUE, fs |-> f]
     ELSE [ok |-> TRUE,
           fs |-> [x \in DOMAIN f \cup Prefixes(q) |-> IF x \in DOMAIN f THEN f[x] ELSE Dir]]

----------------------------------------------------------------------------
(* SecurePathValidator and PathManager                                     *)

\* Path.home()
Home == <<"home", "u">>

\* the sandbox root: Path.home() / "minecraft_servers"
ServersDir == Append(Home, "minecraft_servers")

max_instances == 1000

Fail(f) == [ok |-> FALSE, path |-> <<>>, fs |-> f]
Done(p, f) == [ok |-> TRUE, path |-> p, fs |-> f]

\* str(resolved_path).startswith(str(resolved_parent))
InsideAllowedParent(resolved_path, resolved_parent) ==
  StartsWith(PathStr(resolved_path), PathStr(resolved_parent))

\* SecurePathValidator.validate_and_resolve_path: PathValidationError or the resolved path
validate_and_resolve_path(f, path, allowed_parent) ==
  LET resolved_path == Resolve(f, path)
      resolved_parent == Resolve(f, allowed_parent)
  IN IF ~InsideAllowedParent(resolved_path, resolved_parent)
     THEN Fail(f)
     ELSE Done(resolved_path, f)

\* a plausible slip: mkdir without exist_ok, so that an existing directory is an error
create_safe_directory_ExistNotOk(f, path) ==
  LET m == MkdirP(f, path)
  IN IF m.ok /\ Resolve(f, path) \notin DOMAIN f THEN Done(path, m.fs) ELSE Fail(f)

\* SecurePathValidator.create_safe_directory: the result of validate_server_name on
\* the parts is discarded; mkdir raising OSError becomes PathValidationError
create_safe_directory(f, path) ==
  LET m == MkdirP(f, path)
  IN IF m.ok THEN Done(path, m.fs) ELSE Fail(f)

\* PathManager.get_servers_directory
get_servers_directory(f) == create_safe_directory(f, ServersDir)

\* a plausible slip: the first instance gets a suffix too
ServerDirName_AlwaysSuffixed(safe_server_type, safe_version, instance) ==
  safe_server_type \o "-" \o safe_version \o "-" \o ToString(instance)

\* the directory name of an instance
ServerDirName(safe_server_type, safe_version, instance) ==
  IF instance = 0
  THEN safe_server_type \o "-" \o safe_version
  ELSE safe_server_type \o "-" \o safe_version \o "-" \o ToString(instance)

\* PathManager.get_server_directory
get_server_directory(f, server_type, version, instance) ==
  IF ~validate_server_name(server_type) THEN Fail(f)
  ELSE IF ~validate_server_name(version) THEN Fail(f)
  ELSE IF instance < 0 \/ instance > 999 THEN Fail(f)
  ELSE LET base == get_servers_directory(f)
       IN IF ~base.ok THEN Fail(f)
          ELSE LET safe_server_type == sanitize_path_component(server_type)
                   safe_version == sanitize_path_component(version)
               IN IF ~safe_server_type.ok \/ ~safe_version.ok THEN Fail(base.fs)
                  ELSE LET server_dir == Append(base.path,
                                ServerDirName(safe_server_type.value, safe_version.value, instance))
                           validated == validate_and_resolve_path(base.fs, server_dir, base.path)
                       IN IF ~validated.ok THEN Fail(base.fs)
                          ELSE create_safe_directory(base.fs, validated.path)

\* the first instance probed by find_available_server_directory
FirstInstance == 0

\* a plausible slip: any directory that could be created counts as available
IsAvailable_NoEmptyCheck(r) == r.ok

\* "if not any(server_dir.iterdir()): return server_dir"
IsAvailable(r) == r.ok /\ IsEmptyDir(r.fs, r.path)

\* a plausible slip: the loop runs once more
InRange_Inclusive(instance) == instance <= max_instances

\* "while instance < max_instances"
InRange(instance) == instance < max_instances

\* iterations instance .. stop-1 of the while loop of find_available_server_directory:
\* a non-empty directory and a PathValidationError both move on to the next instance;
\* next is the value of instance the stretch ends with
RECURSIVE ProbeRange(_, _, _, _, _)
ProbeRange(f, server_type, version, instance, stop) ==
  IF ~(InRange(instance) /\ instance < stop)
  THEN [found |-> FALSE, res |-> Fail(f), next |-> instance]
  ELSE LET r == get_server_directory(f, server_type, version, instance)
       IN IF IsAvailable(r) THEN [found |-> TRUE, res |-> r, next |-> instance + 1]
          ELSE ProbeRange(r.fs, server_type, version, instance + 1, stop)

\* PathManager.find_available_server_directory, from the given instance on; the
\* loop is evaluated in stretches of 40 iterations to keep the evaluation shallow;
\* probed is the number of get_server_directory calls made
RECURSIVE FindFrom(_, _, _, _)
FindFrom(f, server_type, version, instance) ==
  IF ~InRange(instance) THEN Fail(f) @@ [probed |-> instance - FirstInstance]
  ELSE LET b == ProbeRange(f, server_type, version, instance, instance + 40)
       IN IF b.found THEN b.res @@ [probed |-> b.next - FirstInstance]
          ELSE FindFrom(b.res.fs, server_type, version, b.next)

find_available_server_directory(f, server_type, version) ==
  FindFrom(f, server_type, version, FirstInstance)

\* PathManager.validate_install_directory; has = FALSE stands for None
validate_install_directory(f, has, install_dir) ==
  IF ~has THEN Done(<<>>, f)
  ELSE LET servers == get_servers_directory(f)
       IN IF ~servers.ok THEN Fail(f)
          ELSE LET base_dir == Parent(servers.path)
                   validated == validate_and_resolve_path(servers.fs, install_dir, base_dir)
               IN IF ~validated.ok THEN Fail(servers.fs)
                  ELSE create_safe_directory(servers.fs, validated.path)

----------------------------------------------------------------------------
(* The host the allocator runs on                                          *)

\* number of calls explored in one behaviour
MaxCalls == 3

\* a sibling of the sandbox root whose name extends the root's name
SiblingDir == Append(Home, "minecraft_servers_old")
\* a directory elsewhere on the host
OutsideDir == <<"srv", "mc">>
\* a directory inside the sandbox root that is no instance directory
InsideDir == Append(ServersDir, "shared")

\* what may already sit at an instance name when the program starts
EntryStates == {"absent", "empty", "full", "file", "link_sibling", "link_outside", "link_inside"}

DirsAt(p) == {<<q, Dir>> : q \in Prefixes(p)}

EntryNodes(name, st) ==
  LET p == Append(ServersDir, name)
  IN CASE st = "absent" -> {}
       [] st = "empty" -> {<<p, Dir>>}
       [] st = "full" -> {<<p, Dir>>, <<Append(p, "world"), Dir>>}
       [] st = "file" -> {<<p, File>>}
       [] st = "link_sibling" -> {<<p, Link(SiblingDir)>>}
       [] st = "link_outside" -> {<<p, Link(OutsideDir)>>}
       [] st = "link_inside" -> {<<p, Link(InsideDir)>>} \cup DirsAt(InsideDir)

FsOf(S) == [p \in {x[1] : x \in S} |-> (CHOOSE x \in S : x[1] = p)[2]]

\* a host with the sandbox root present and two instance names in the given state
HostFs(e0, e1) ==
  FsOf(DirsAt(ServersDir) \cup DirsAt(SiblingDir) \cup DirsAt(OutsideDir)
       \cup EntryNodes("paper-1.21", e0) \cup EntryNodes("paper-1.21-1", e1))

\* a fresh host: the home directory exists, the sandbox root does not
FreshFs == FsOf(DirsAt(Home) \cup DirsAt(SiblingDir) \cup DirsAt(OutsideDir))

\* a host where a regular file occupies the sandbox root's name
BlockedFs == FsOf(DirsAt(Home) \cup {<<ServersDir, File>>})

InitialHosts == {HostFs(e0, e1) : e0 \in EntryStates, e1 \in EntryStates} \cup {FreshFs, BlockedFs}

\* the (server_type, version) pairs passed to the allocator
AllocRequests == {<<"paper", "1.21">>, <<"spigot", "1.21">>}

\* candidate paths and roots passed to validate_and_resolve_path
Candidates ==
  {ServersDir,
   Append(ServersDir, "paper-1.21"),
   Append(ServersDir, "paper-1.21-1"),
   ServersDir \o <<"paper-1.21", "..", "spigot-1.21">>,
   ServersDir \o <<"..", "Documents">>,
   ServersDir \o <<"..", "..", "..", "etc">>,
   ServersDir \o <<"~">>,
   Append(SiblingDir, "world"),
   SiblingDir,
   Home,
   OutsideDir}

AllowedParents == {ServersDir, Home}

NoCall == [op |-> "none", ok |-> FALSE, err |-> "", path |-> <<>>, args |-> <<>>]

NoServer ==
  [state |-> "none", kind |-> "", version |-> "", ram_allocation |-> 0, server_port |-> 0,
   has_dir |-> FALSE, install_directory |-> <<>>, forge_version |-> "", entered |-> FALSE]

NoJava == [platform |-> "linux", homes |-> {}, on_path |-> FALSE, path_version |-> 0, scan_error |-> FALSE,
           brew |-> "absent"]

\* the API clients of a process and their empty caches
Families == {"manifest", "paper", "leaf"}
EmptyCache == [k \in {} |-> "None"]
NoCache == [family \in Families |-> EmptyCache]

\* no concurrent installs are looked at
NoInstallers == <<>>

\* no compile_spigot call is looked at
NoCompile == <<>>

\* no download_file call was made; the destination does not exist
NoDownload ==
  [pc |-> "idle", has_callback |-> FALSE, total_size |-> 0, downloaded |-> 0, sizes |-> <<>>,
   progress |-> <<>>, ret |-> "", exc |-> "", exists |-> FALSE, written |-> 0]

\* no generated file exists
NoFiles == [n \in {} |-> ""]

Idle == [pc |-> "NotStarted", next |-> 1, started |-> <<>>, results |-> <<>>,
         error |-> "", message |-> ""]

InitPath ==
  /\ fs \in InitialHosts
  /\ last = NoCall
  /\ ncalls = 0
  /\ returned = {}
  /\ server = NoServer
  /\ requests = 0
  /\ java = NoJava
  /\ run = Idle
  /\ api = NoCache
  /\ known = {}
  /\ events = <<>>
  /\ download = NoDownload
  /\ installers = NoInstallers
  /\ compile = NoCompile
  /\ files = NoFiles

\* a call of PathManager.find_available_server_directory(server_type, version)
AllocateCall(server_type, version, limit) ==
  /\ ncalls < limit
  /\ \E r \in {find_available_server_directory(fs, server_type, version)} :
        /\ fs' = r.fs
        /\ last' = [op |-> "allocate", ok |-> r.ok,
                    err |-> IF r.ok THEN "" ELSE "PathValidationError",
                    path |-> r.path, args |-> <<server_type, version>>, probed |-> r.probed]
        /\ returned' = IF r.ok THEN returned \cup {<<server_type, version, r.path>>}
                       ELSE returned
  /\ ncalls' = ncalls + 1
  /\ UNCHANGED <<installVars, cacheVars, ioVars>>

Allocate(server_type, version) == AllocateCall(server_type, version, MaxCalls)

\* the installation that was given directory d writes a file into it
WriteInto(d) ==
  /\ ncalls < MaxCalls
  /\ d \in {t[3] : t \in returned}
  /\ Append(d, "server.jar") \notin DOMAIN fs
  /\ fs' = [x \in DOMAIN fs \cup {Append(d, "server.jar")} |->
              IF x \in DOMAIN fs THEN fs[x] ELSE File]
  /\ last' = [op |-> "write", ok |-> TRUE, err |-> "", path |-> d, args |-> <<>>]
  /\ ncalls' = ncalls + 1
  /\ UNCHANGED <<returned, installVars, cacheVars, ioVars>>

\* a call of SecurePathValidator.validate_and_resolve_path(path, allowed_parent)
ValidateAndResolve(path, allowed_parent) ==
  /\ ncalls < MaxCalls
  /\ \E r \in {validate_and_resolve_path(fs, path, allowed_parent)} :
        last' = [op |-> "resolve", ok |-> r.ok,
                 err |-> IF r.ok THEN "" ELSE "PathValidationError",
                 path |-> r.path, args |-> <<path, allowed_parent>>]
  /\ ncalls' = ncalls + 1
  /\ UNCHANGED <<fs, returned, installVars, cacheVars, ioVars>>

NextPath ==
  \/ \E rq \in AllocRequests : Allocate(rq[1], rq[2])
  \/ \E t \in returned : WriteInto(t[3])

SpecPath == InitPath /\ [][NextPath]_vars

NextResolve ==
  \E path \in Candidates, allowed_parent \in AllowedParents :
     ValidateAndResolve(path, allowed_parent)

SpecResolve == InitPath /\ [][NextResolve]_vars

\* number of allocator calls explored on a host whose instances are all taken
MaxExhaustCalls == 2

\* a host where every instance 0..999 of paper 1.21 is a directory with a world in it
FullNames == {ServerDirName("paper", "1.21", i) : i \in 0..(max_instances - 1)}
FullPaths == {Append(ServersDir, n) : n \in FullNames} \cup {ServersDir \o <<n, "world">> : n \in FullNames}
FullFs == [p \in Prefixes(ServersDir) \cup FullPaths |-> Dir]

\* the same host after the world of the last instance was removed
AlmostFullFs == [p \in DOMAIN FullFs \ {ServersDir \o <<ServerDirName("paper", "1.21", 999), "world">>} |-> Dir]

NextExhaust ==
  \/ \E rq \in AllocRequests : AllocateCall(rq[1], rq[2], MaxExhaustCalls)
  \/ \E t \in returned : WriteInto(t[3])

InitExhaust ==
  /\ fs \in {FullFs, AlmostFullFs} \cup {HostFs(e0, e1) : e0 \in {"full", "file"}, e1 \in EntryStates}
  /\ last = NoCall
  /\ ncalls = 0
  /\ returned = {}
  /\ server = NoServer
  /\ requests = 0
  /\ java = NoJava
  /\ run = Idle
  /\ api = NoCache
  /\ known = {}
  /\ events = <<>>
  /\ download = NoDownload
  /\ installers = NoInstallers
  /\ compile = NoCompile
  /\ files = NoFiles

SpecExhaust == InitExhaust /\ [][NextExhaust]_vars

----------------------------------------------------------------------------
(* The server classes: construction                                        *)

MIN_RAM_MB == 512
MAX_RAM_MB == 32768
MIN_PORT == 1024
MAX_PORT == 65535

DEFAULT_MINECRAFT_VERSIONS ==
  {"1.7.2", "1.7.4", "1.7.5", "1.7.6", "1.7.7", "1.7.8", "1.7.9", "1.7.10", "1.8",
   "1.8.1", "1.8.2", "1.8.3", "1.8.4", "1.8.5", "1.8.6", "1.8.7", "1.8.8", "1.8.9",
   "1.9", "1.9.1", "1.9.2", "1.9.3", "1.9.4", "1.10", "1.10.1", "1.10.2", "1.11",
   "1.11.1", "1.11.2", "1.12", "1.12.1", "1.12.2", "1.13", "1.13.1", "1.13.2", "1.14",
   "1.14.1", "1.14.2", "1.14.3", "1.14.4", "1.15", "1.15.1", "1.15.2", "1.16",
   "1.16.1", "1.16.2", "1.16.3", "1.16.4", "1.16.5", "1.17", "1.17.1", "1.18",
   "1.18.1", "1.18.2", "1.19", "1.19.1", "1.19.2", "1.19.3", "1.19.4", "1.20",
   "1.20.1", "1.20.2", "1.20.3", "1.20.4", "1.20.5", "1.20.6", "1.21", "1.21.1",
   "1.21.2", "1.21.3", "1.21.4", "1.21.5", "1.21.6", "1.21.7", "1.21.8"}

FORGE_SUPPORTED_VERSIONS ==
  {"1.7.10", "1.8", "1.8.9", "1.9", "1.9.4", "1.10", "1.10.2", "1.11", "1.11.2",
   "1.12", "1.12.1", "1.12.2", "1.13", "1.13.2", "1.14", "1.14.1", "1.14.2", "1.14.3",
   "1.14.4", "1.15", "1.15.1", "1.15.2", "1.16", "1.16.1", "1.16.2", "1.16.3",
   "1.16.4", "1.16.5", "1.17", "1.17.1", "1.18", "1.18.1", "1.18.2", "1.19", "1.19.1",
   "1.19.2", "1.19.3", "1.19.4", "1.20", "1.20.1", "1.20.2", "1.20.3", "1.20.4",
   "1.20.5", "1.20.6", "1.21", "1.21.1", "1.21.2", "1.21.3", "1.21.4", "1.21.5",
   "1.21.6", "1.21.7", "1.21.8"}

SPIGOT_SUPPORTED_VERSIONS ==
  {"1.8", "1.8.3", "1.8.7", "1.8.8", "1.9", "1.9.2", "1.9.4", "1.10", "1.10.2", "1.11",
   "1.11.2", "1.12", "1.12.1", "1.12.2", "1.13", "1.13.1", "1.13.2", "1.14", "1.14.1",
   "1.14.2", "1.14.3", "1.14.4", "1.15", "1.15.1", "1.15.2", "1.16", "1.16.1",
   "1.16.2", "1.16.3", "1.16.4", "1.16.5", "1.17", "1.17.1", "1.18", "1.18.1",
   "1.18.2", "1.19", "1.19.1", "1.19.2", "1.19.3", "1.19.4", "1.20", "1.20.1",
   "1.20.2", "1.20.3", "1.20.4", "1.20.5", "1.20.6", "1.21", "1.21.1", "1.21.2",
   "1.21.3", "1.21.4", "1.21.5", "1.21.6", "1.21.7", "1.21.8"}

Kinds == {"vanilla", "paper", "spigot", "forge", "leaf"}

Whitespace == {" ", "\t", "\n"}

\* str.strip
RECURSIVE Strip(_)
Strip(s) ==
  IF s = "" THEN ""
  ELSE IF CharAt(s, 1) \in Whitespace THEN Strip(SubSeq(s, 2, Len(s)))
  ELSE IF CharAt(s, Len(s)) \in Whitespace THEN Strip(SubSeq(s, 1, Len(s) - 1))
  ELSE s

\* the supported_versions property as the constructor reads it (self._api is None):
\* Paper and Leaf call a method of self._api and raise AttributeError
supported_versions(kind) ==
  CASE kind = "vanilla" -> [ok |-> TRUE, err |-> "", versions |-> DEFAULT_MINECRAFT_VERSIONS]
    [] kind = "spigot" -> [ok |-> TRUE, err |-> "", versions |-> SPIGOT_SUPPORTED_VERSIONS]
    [] kind = "forge" -> [ok |-> TRUE, err |-> "", versions |-> FORGE_SUPPORTED_VERSIONS]
    [] kind \in {"paper", "leaf"} -> [ok |-> FALSE, err |-> "AttributeError", versions |-> {}]

\* BaseServer._validate_version_support: the exception raised, "" for none
validate_version_support(kind, version) ==
  LET sv == supported_versions(kind)
  IN IF ~sv.ok THEN sv.err
     ELSE IF version \notin sv.versions THEN "UnsupportedVersionError"
     ELSE ""

\* a plausible slip: the port is not validated
NewServer_NoPortCheck(f, kind, version, ram_allocation, server_port, has_dir, install_directory, forge_version) ==
  IF Strip(version) = "" THEN [err |-> "ValidationError", fs |-> f, server |-> NoServer]
  ELSE IF ram_allocation < MIN_RAM_MB \/ ram_allocation > MAX_RAM_MB
       THEN [err |-> "ValidationError", fs |-> f, server |-> NoServer]
  ELSE LET d == validate_install_directory(f, has_dir, install_directory)
       IN IF ~d.ok THEN [err |-> "ValidationError", fs |-> d.fs, server |-> NoServer]
          ELSE LET e == validate_version_support(kind, Strip(version))
               IN [err |-> e, fs |-> d.fs,
                   server |-> IF e # "" THEN NoServer
                              ELSE [state |-> "built", kind |-> kind,
                                    version |-> Strip(version),
                                    ram_allocation |-> ram_allocation,
                                    server_port |-> server_port,
                                    has_dir |-> has_dir,
                                    install_directory |-> d.path,
                                    forge_version |-> forge_version,
                                    entered |-> FALSE]]

\* BaseServer.__init__ followed by the subclass __init__: [err, fs, server]
NewServer(f, kind, version, ram_allocation, server_port, has_dir, install_directory, forge_version) ==
  IF Strip(version) = "" THEN [err |-> "ValidationError", fs |-> f, server |-> NoServer]
  ELSE IF ram_allocation < MIN_RAM_MB \/ ram_allocation > MAX_RAM_MB
       THEN [err |-> "ValidationError", fs |-> f, server |-> NoServer]
  ELSE IF server_port < MIN_PORT \/ server_port > MAX_PORT
       THEN [err |-> "ValidationError", fs |-> f, server |-> NoServer]
  ELSE LET d == validate_install_directory(f, has_dir, install_directory)
       IN IF ~d.ok THEN [err |-> "ValidationError", fs |-> d.fs, server |-> NoServer]
          ELSE LET e == validate_version_support(kind, Strip(version))
               IN [err |-> e, fs |-> d.fs,
                   server |-> IF e # "" THEN NoServer
                              ELSE [state |-> "built", kind |-> kind,
                                    version |-> Strip(version),
                                    ram_allocation |-> ram_allocation,
                                    server_port |-> server_port,
                                    has_dir |-> has_dir,
                                    install_directory |-> d.path,
                                    forge_version |-> forge_version,
                                    entered |-> FALSE]]

\* inputs of the constructor
VersionInputs == {"1.21", " 1.21 ", "1.7.2", "0.0.1", " "}
RamInputs == {511, 512, 32768, 32769}
PortInputs == {1023, 1024, 65535, 65536}
\* custom directories: inside the sandbox root, elsewhere under the home directory,
\* under a neighbouring home directory, and elsewhere on the host
CustomDirs == {Append(ServersDir, "custom"), Append(Home, "games"),
               <<"home", "u2", "mc">>, Append(OutsideDir, "custom")}
DirInputs == {<<FALSE, <<>>>>} \cup {<<TRUE, d>> : d \in CustomDirs}
ForgeVersionInputs == {"", "51.0.33"}

\* ServerClass(version, ram_allocation=..., server_port=..., install_directory=...)
Construct(kind, version, ram_allocation, server_port, has_dir, install_directory, forge_version) ==
  /\ server.state = "none"
  /\ last.op = "none"
  /\ \E r \in {NewServer(fs, kind, version, ram_allocation, server_port, has_dir,
                         install_directory, forge_version)} :
        /\ fs' = r.fs
        /\ server' = r.server
        /\ last' = [op |-> "construct", ok |-> r.err = "", err |-> r.err,
                    path |-> r.server.install_directory,
                    args |-> <<kind, version, ram_allocation, server_port, has_dir,
                               install_directory, forge_version>>]
  /\ UNCHANGED <<allocVars, requests, java, run, events, cacheVars, ioVars>>

NextServer ==
  \E kind \in Kinds, version \in VersionInputs, ram_allocation \in RamInputs,
     server_port \in PortInputs, d \in DirInputs,
     forge_version \in ForgeVersionInputs :
       /\ (kind # "forge" => forge_version = "")
       /\ Construct(kind, version, ram_allocation, server_port, d[1], d[2], forge_version)

\* hosts a server is constructed on
ServerHosts == {FreshFs, BlockedFs, HostFs("full", "absent")}

InitServer ==
  /\ fs \in ServerHosts
  /\ last = NoCall
  /\ ncalls = 0
  /\ returned = {}
  /\ server = NoServer
  /\ requests = 0
  /\ java = NoJava
  /\ run = Idle
  /\ api = NoCache
  /\ known = {}
  /\ events = <<>>
  /\ download = NoDownload
  /\ installers = NoInstallers
  /\ compile = NoCompile
  /\ files = NoFiles

SpecServer == InitServer /\ [][NextServer]_vars

----------------------------------------------------------------------------
(* Versions and the Java toolchain                                         *)

DEFAULT_JAVA_VERSION == 8

DigitValue(c) == (CHOOSE i \in 1..Len(Digits) : CharAt(Digits, i) = c) - 1

IsNumber(t) == t # "" /\ CharsOf(t) \subseteq CharsOf(Digits)

RECURSIVE ToInt(_)
ToInt(t) ==
  IF Len(t) = 1 THEN DigitValue(t)
  ELSE 10 * ToInt(SubSeq(t, 1, Len(t) - 1)) + DigitValue(CharAt(t, Len(t)))

\* str.split(".")
RECURSIVE SplitDots(_, _)
SplitDots(s, acc) ==
  IF s = "" THEN <<acc>>
  ELSE IF CharAt(s, 1) = "." THEN <<acc>> \o SplitDots(SubSeq(s, 2, Len(s)), "")
  ELSE SplitDots(SubSeq(s, 2, Len(s)), acc \o CharAt(s, 1))

\* packaging.version.parse on a dotted release "N(.N)*"; any other text is
\* taken as InvalidVersion
ParseVersion(s) ==
  LET parts == SplitDots(s, "")
  IN IF \A i \in 1..Len(parts) : IsNumber(parts[i])
     THEN [ok |-> TRUE, release |-> [i \in 1..Len(parts) |-> ToInt(parts[i])]]
     ELSE [ok |-> FALSE, release |-> <<>>]

Component(rel, i) == IF i <= Len(rel) THEN rel[i] ELSE 0

\* Version >= Version: releases compare as tuples padded with zeros
ReleaseGE(a, b) ==
  LET n == IF Len(a) > Len(b) THEN Len(a) ELSE Len(b)
  IN \/ \A i \in 1..n : Component(a, i) = Component(b, i)
     \/ \E i \in 1..n :
          /\ Component(a, i) > Component(b, i)
          /\ \A k \in 1..(i - 1) : Component(a, k) = Component(b, k)

\* the place of a character in the order of the characters of a version
CharRank(c) == CHOOSE i \in 1..Len(".0123456789") : CharAt(".0123456789", i) = c

\* str >= str: the texts compare character by character
RECURSIVE TextGE(_, _)
TextGE(a, b) ==
  IF b = "" THEN TRUE
  ELSE IF a = "" THEN FALSE
  ELSE IF CharAt(a, 1) = CharAt(b, 1) THEN TextGE(SubSeq(a, 2, Len(a)), SubSeq(b, 2, Len(b)))
  ELSE CharRank(CharAt(a, 1)) > CharRank(CharAt(b, 1))

\* a plausible slip: the versions are compared as texts
JavaFallback_Lexical(minecraft_version) ==
  LET ver == ParseVersion(minecraft_version)
  IN IF ~ver.ok THEN DEFAULT_JAVA_VERSION
     ELSE IF TextGE(minecraft_version, "1.20.5") THEN 21
     ELSE IF TextGE(minecraft_version, "1.17") THEN 17
     ELSE DEFAULT_JAVA_VERSION

\* the static version -> Java major table of get_java_version / get_required_java_version
JavaFallback(minecraft_version) ==
  LET ver == ParseVersion(minecraft_version)
  IN IF ~ver.ok THEN DEFAULT_JAVA_VERSION
     ELSE IF ReleaseGE(ver.release, <<1, 20, 5>>) THEN 21
     ELSE IF ReleaseGE(ver.release, <<1, 17>>) THEN 17
     ELSE IF ReleaseGE(ver.release, <<1, 12>>) THEN 8
     ELSE DEFAULT_JAVA_VERSION

\* MinecraftVersionAPI.get_version_info: reading self._version_cache, an attribute no
\* constructor sets, raises AttributeError inside the try, so the method logs and
\* returns None before any request; "None" stands for None
MinecraftVersionAPI_get_version_info(version_str) == "None"

\* MinecraftVersionAPI.get_java_version
get_java_version(minecraft_version) ==
  IF MinecraftVersionAPI_get_version_info(minecraft_version) # "None"
  THEN 0
  ELSE JavaFallback(minecraft_version)

\* BaseServer.get_required_java_version
get_required_java_version(srv) ==
  IF srv.entered
  THEN (IF get_java_version(srv.version) # 0 THEN get_java_version(srv.version)
        ELSE DEFAULT_JAVA_VERSION)
  ELSE JavaFallback(srv.version)

JAVA_VERSIONS == {8, 11, 17, 21}

\* JavaManager.get_java_executable: [raised, exe]; exe = "" stands for None and
\* java_version = 0 for a call without a version
get_java_executable(j, java_version) ==
  IF java_version # 0 /\ j.scan_error THEN [raised |-> TRUE, exe |-> ""]
  ELSE IF java_version # 0 /\ java_version \in j.homes
       THEN [raised |-> FALSE, exe |-> "/usr/lib/jvm/java-" \o ToString(java_version) \o "/bin/java"]
  ELSE IF j.on_path THEN [raised |-> FALSE, exe |-> "/usr/bin/java"]
  ELSE [raised |-> FALSE, exe |-> ""]

\* JavaManager.install_java: the possible [ok, java] results
install_java(j, version) ==
  IF version \notin JAVA_VERSIONS THEN {[ok |-> FALSE, java |-> j]}
  ELSE IF j.platform = "linux" THEN {[ok |-> FALSE, java |-> j]}
  ELSE IF j.platform = "darwin"
       THEN (IF j.brew = "works"
             THEN {[ok |-> TRUE, java |-> j],
                   [ok |-> TRUE, java |-> [j EXCEPT !.homes = @ \cup {version}]]}
             ELSE {[ok |-> FALSE, java |-> j]})
  ELSE {[ok |-> FALSE, java |-> j]}

\* BaseServer.ensure_java_installation: the possible [ret, exc, java] outcomes
ensure_java_installation(srv, j) ==
  LET required_version == get_required_java_version(srv)
      first == get_java_executable(j, required_version)
  IN IF first.raised THEN {[ret |-> "raise", exc |-> "[Errno 13] Permission denied", java |-> j]}
     ELSE IF first.exe # "" THEN {[ret |-> "True", exc |-> "", java |-> j]}
     ELSE {IF ~i.ok THEN [ret |-> "False", exc |-> "", java |-> i.java]
           ELSE IF get_java_executable(i.java, required_version).exe = ""
                THEN [ret |-> "False", exc |-> "", java |-> i.java]
                ELSE [ret |-> "True", exc |-> "", java |-> i.java]
           : i \in install_java(j, required_version)}

----------------------------------------------------------------------------
(* BaseServer.install and its steps                                        *)

DEFAULT_RAM_MB == 2048
DEFAULT_PORT == 25565

\* number of install() calls explored in one behaviour
MaxInstalls == 2

\* sub in s
Contains(s, sub) ==
  \E i \in 1..(Len(s) - Len(sub) + 1) : SubSeq(s, i, i + Len(sub) - 1) = sub

\* a plausible slip: the configuration file is written before the jar is obtained
install_steps_swapped ==
  <<"Java installation", "Server properties creation", "Server jar download",
    "Start script creation", "EULA file creation">>

\* the names of the install_steps list of BaseServer.install, in its order
install_steps ==
  <<"Java installation", "Server jar download", "Server properties creation",
    "Start script creation", "EULA file creation">>

\* get_jar_filename of the server classes that can be constructed
get_jar_filename(srv) ==
  CASE srv.kind = "vanilla" -> "minecraft_server." \o srv.version \o ".jar"
    [] srv.kind = "spigot" -> "spigot-" \o srv.version \o ".jar"
    [] srv.kind = "forge" ->
         IF srv.forge_version # ""
         THEN "forge-" \o srv.version \o "-" \o srv.forge_version \o ".jar"
         ELSE "forge-" \o srv.version \o ".jar"

server_jar_path(srv) == Append(srv.install_directory, get_jar_filename(srv))
start_script_path(srv) == Append(srv.install_directory, "start.sh")

\* open(path, 'w') followed by write: the possible [ok, fs] results.  The call fails
\* when the parent is no directory or the path names a directory, and it may fail for
\* lack of space or permission
WriteFile(f, p) ==
  LET q == Resolve(f, p)
  IN IF \/ Parent(q) \notin DOMAIN f
        \/ f[Parent(q)].type # "dir"
        \/ (q \in DOMAIN f /\ f[q].type = "dir")
     THEN {[ok |-> FALSE, fs |-> f]}
     ELSE {[ok |-> FALSE, fs |-> f],
           [ok |-> TRUE, fs |-> [x \in DOMAIN f \cup {q} |-> IF x = q THEN File ELSE f[x]]]}

\* the result of a step: what it returned ("True", "False" or "raise"), the text of
\* the exception, and the state it left
Outcome(ret, exc, f, srv, req, j) ==
  [ret |-> ret, exc |-> exc, fs |-> f, server |-> srv, requests |-> req, java |-> j,
   events |-> <<>>]

\* BaseDownloadClient.download_file: one request, then [ret, exc, fs]; the request may
\* fail before the destination is opened, the stream may break after part of the
\* file was written, or the whole file arrives
download_file(f, destination) ==
  {[ret |-> "raise", exc |-> "Failed to download", fs |-> f]}
  \cup {IF w.ok THEN [ret |-> "True", exc |-> "", fs |-> w.fs]
        ELSE [ret |-> "raise", exc |-> "Failed to write file", fs |-> f]
        : w \in WriteFile(f, destination)}
  \cup {[ret |-> "raise", exc |-> "Failed to download", fs |-> w.fs]
        : w \in {x \in WriteFile(f, destination) : x.ok}}

\* BaseServer._ensure_java_step
ensure_java_step(f, srv, req, j) ==
  {Outcome(o.ret, o.exc, f, srv, req, o.java) : o \in ensure_java_installation(srv, j)}

\* VanillaServer.download_server_jar: get_server_jar_url finds no version info, so
\* there is no download URL
vanilla_download_server_jar(f, srv, req, j) ==
  IF MinecraftVersionAPI_get_version_info(srv.version) = "None"
  THEN {Outcome("False", "", f, srv, req, j)}
  ELSE {Outcome(d.ret, d.exc, d.fs, srv, req + 1, j) : d \in download_file(f, server_jar_path(srv))}

\* the jar SpigotServer keeps in the per-user cache
spigot_cached_jar(srv) ==
  Home \o <<".minecraft_server_cache", "spigot", "spigot-" \o srv.version \o ".jar">>

build_directory(srv) == Append(srv.install_directory, "build")
buildtools_path(srv) == Append(build_directory(srv), "BuildTools.jar")

\* one thing an acquisition did: what it was, the exit code of a child process, whether
\* the artifact was found afterwards, whether it could be put in place, the result
\* reported, and whether the server jar was in the installation directory afterwards
Event(what, exit, artifact, moved, ok, jar) ==
  [what |-> what, exit |-> exit, artifact |-> artifact, moved |-> moved, ok |-> ok, jar |-> jar]

\* a plausible slip: the cache is not consulted
check_spigot_cache_NotConsulted(f, srv) == {[hit |-> FALSE, fs |-> f, events |-> <<>>]}

\* SpigotServer.check_spigot_cache: the possible [hit, fs, events] results
check_spigot_cache(f, srv) ==
  IF spigot_cached_jar(srv) \in DOMAIN f
  THEN {[hit |-> w.ok, fs |-> w.fs,
         events |-> <<Event("cache_check", 0, FALSE, w.ok, w.ok, server_jar_path(srv) \in DOMAIN w.fs)>>]
        : w \in WriteFile(f, server_jar_path(srv))}
  ELSE {[hit |-> FALSE, fs |-> f,
         events |-> <<Event("cache_check", 0, FALSE, FALSE, FALSE, server_jar_path(srv) \in DOMAIN f)>>]}

\* SpigotServer.download_buildtools: the possible [ok, fs, asked, events] results, one
\* request each
download_buildtools(f, srv) ==
  LET m == MkdirP(f, build_directory(srv))
  IN IF ~m.ok THEN {[ok |-> FALSE, fs |-> f, asked |-> 0, events |-> <<>>]}
     ELSE {[ok |-> d.ret = "True", fs |-> d.fs, asked |-> 1,
            events |-> <<Event("buildtools_download", 0, FALSE, FALSE, d.ret = "True",
                               server_jar_path(srv) \in DOMAIN d.fs)>>]
           : d \in download_file(m.fs, buildtools_path(srv))}

\* what a child process (BuildTools, the Forge installer) can do: its exit code, and
\* whether it leaves its artifact
ProcessResults == [exit : {0, 1}, artifact : BOOLEAN]

\* a plausible slip: the exit code is not looked at
ProcessSucceeded_AnyCode(returncode) == TRUE

\* "if process.returncode == 0"
ProcessSucceeded(returncode) == returncode = 0

\* f with a regular file at p
AddFile(f, p) == [x \in DOMAIN f \cup {p} |-> IF x = p THEN File ELSE f[x]]

\* a plausible slip: a move that fails has already removed its source
MoveFile_FailureLosesSource(f, src, dst) ==
  {[ok |-> FALSE, fs |-> [x \in DOMAIN f \ {src} |-> f[x]]],
   [ok |-> TRUE, fs |-> [x \in (DOMAIN f \ {src}) \cup {dst} |-> IF x = dst THEN File ELSE f[x]]]}

\* shutil.move(src, dst) and Path.rename(dst): the possible [ok, fs] results
MoveFile(f, src, dst) ==
  {[ok |-> FALSE, fs |-> f],
   [ok |-> TRUE, fs |-> [x \in (DOMAIN f \ {src}) \cup {dst} |-> IF x = dst THEN File ELSE f[x]]]}

compiled_jar_path(srv) == Append(build_directory(srv), "spigot-" \o srv.version \o ".jar")

\* SpigotServer.compile_spigot: the possible [ok, fs, events] results
compile_spigot(f, srv, j) ==
  LET java_exe == get_java_executable(j, 8)
  IN IF java_exe.raised \/ java_exe.exe = "" THEN {[ok |-> FALSE, fs |-> f, events |-> <<>>]}
     ELSE UNION
       {LET g == IF p.artifact THEN AddFile(f, compiled_jar_path(srv)) ELSE f
            found == compiled_jar_path(srv) \in DOMAIN g
        IN IF ProcessSucceeded(p.exit)
           THEN (IF found
                 THEN {[ok |-> m.ok, fs |-> m.fs,
                        events |-> <<Event("build", p.exit, found, m.ok, m.ok,
                                           server_jar_path(srv) \in DOMAIN m.fs)>>]
                       : m \in MoveFile(g, compiled_jar_path(srv), server_jar_path(srv))}
                 ELSE {[ok |-> FALSE, fs |-> g,
                        events |-> <<Event("build", p.exit, found, FALSE, FALSE,
                                           server_jar_path(srv) \in DOMAIN g)>>]})
           ELSE {[ok |-> FALSE, fs |-> g,
                  events |-> <<Event("build", p.exit, found, FALSE, FALSE,
                                     server_jar_path(srv) \in DOMAIN g)>>]}
        : p \in ProcessResults}

\* SpigotServer.cache_spigot_jar: the possible [fs, events] results; a failure is only
\* logged
cache_spigot_jar(f, srv) ==
  LET m == MkdirP(f, Parent(spigot_cached_jar(srv)))
      jar == server_jar_path(srv) \in DOMAIN f
  IN IF ~m.ok \/ ~jar
     THEN {[fs |-> f, events |-> <<Event("cache_write", 0, FALSE, FALSE, FALSE, jar)>>]}
     ELSE {[fs |-> w.fs, events |-> <<Event("cache_write", 0, FALSE, w.ok, w.ok, jar)>>]
           : w \in WriteFile(m.fs, spigot_cached_jar(srv))}

\* the outcome of an acquisition that did ev
Acquired(ret, f, srv, req, j, ev) == [Outcome(ret, "", f, srv, req, j) EXCEPT !.events = ev]

\* a plausible slip: a jar that could not be cached fails the acquisition
spigot_download_server_jar_CacheFailureFails(f, srv, req, j) ==
  UNION {IF c.hit THEN {Acquired("True", c.fs, srv, req, j, c.events)}
         ELSE UNION {IF ~b.ok
                     THEN {Acquired("False", b.fs, srv, req + b.asked, j, c.events \o b.events)}
                     ELSE UNION {IF ~k.ok
                                 THEN {Acquired("False", k.fs, srv, req + b.asked, j,
                                                c.events \o b.events \o k.events)}
                                 ELSE {Acquired(IF g.events[1].ok THEN "True" ELSE "False",
                                                g.fs, srv, req + b.asked, j,
                                                c.events \o b.events \o k.events \o g.events)
                                       : g \in cache_spigot_jar(k.fs, srv)}
                                 : k \in compile_spigot(b.fs, srv, j)}
                     : b \in download_buildtools(c.fs, srv)}
         : c \in check_spigot_cache(f, srv)}

\* SpigotServer.download_server_jar
spigot_download_server_jar(f, srv, req, j) ==
  UNION {IF c.hit THEN {Acquired("True", c.fs, srv, req, j, c.events)}
         ELSE UNION {IF ~b.ok
                     THEN {Acquired("False", b.fs, srv, req + b.asked, j, c.events \o b.events)}
                     ELSE UNION {IF ~k.ok
                                 THEN {Acquired("False", k.fs, srv, req + b.asked, j,
                                                c.events \o b.events \o k.events)}
                                 ELSE {Acquired("True", g.fs, srv, req + b.asked, j,
                                                c.events \o b.events \o k.events \o g.events)
                                       : g \in cache_spigot_jar(k.fs, srv)}
                                 : k \in compile_spigot(b.fs, srv, j)}
                     : b \in download_buildtools(c.fs, srv)}
         : c \in check_spigot_cache(f, srv)}

\* the Forge versions the files site can list for a Minecraft version
ForgeListings == {"", "51.0.33", "51.0.8"}

forge_installer_path(srv) ==
  IF srv.forge_version # ""
  THEN Append(srv.install_directory,
              "forge-" \o srv.version \o "-" \o srv.forge_version \o "-installer.jar")
  ELSE Append(srv.install_directory, "forge-" \o srv.version \o "-installer.jar")

\* a plausible slip: the latest version is selected whether or not one was given
ensure_forge_version_selected_AlwaysLatest(srv) ==
  {[ok |-> latest # "", server |-> [srv EXCEPT !.forge_version = latest], asked |-> 1]
   : latest \in ForgeListings}

\* ForgeServer.ensure_forge_version_selected: the possible [ok, server, asked] results
ensure_forge_version_selected(srv) ==
  IF srv.forge_version = ""
  THEN {[ok |-> latest # "", server |-> [srv EXCEPT !.forge_version = latest], asked |-> 1]
        : latest \in ForgeListings}
  ELSE {[ok |-> TRUE, server |-> srv, asked |-> 0]}

\* s.endswith(suffix)
EndsWith(s, suffix) ==
  Len(suffix) <= Len(s) /\ SubSeq(s, Len(s) - Len(suffix) + 1, Len(s)) = suffix

\* install_directory.glob("forge-*.jar") without the names that contain "installer"
forge_server_jars(f, srv) ==
  {x \in Entries(f, srv.install_directory) :
     /\ StartsWith(x[Len(x)], "forge-")
     /\ EndsWith(x[Len(x)], ".jar")
     /\ Len(x[Len(x)]) >= Len("forge-.jar")
     /\ ~Contains(x[Len(x)], "installer")}

\* the jar the Forge installer writes into the installation directory
forge_universal_jar(srv) ==
  Append(srv.install_directory,
         "forge-" \o srv.version \o "-" \o srv.forge_version \o "-universal.jar")

\* ForgeServer.install_forge_server: the possible [ok, fs, events] results
install_forge_server(f, srv, j) ==
  LET java_exe == get_java_executable(j, 0)
  IN IF java_exe.exe = "" THEN {[ok |-> FALSE, fs |-> f, events |-> <<>>]}
     ELSE UNION
       {LET g == IF p.artifact THEN AddFile(f, forge_universal_jar(srv)) ELSE f
            server_jars == forge_server_jars(g, srv)
        IN IF ProcessSucceeded(p.exit)
           THEN (IF server_jars # {}
                 THEN UNION
                   {IF first = server_jar_path(srv)
                    THEN {[ok |-> TRUE, fs |-> g,
                           events |-> <<Event("installer", p.exit, TRUE, TRUE, TRUE, TRUE)>>]}
                    ELSE {[ok |-> m.ok, fs |-> m.fs,
                           events |-> <<Event("installer", p.exit, TRUE, m.ok, m.ok,
                                              server_jar_path(srv) \in DOMAIN m.fs)>>]
                          : m \in MoveFile(g, first, server_jar_path(srv))}
                    : first \in server_jars}
                 ELSE {[ok |-> FALSE, fs |-> g,
                        events |-> <<Event("installer", p.exit, FALSE, FALSE, FALSE,
                                           server_jar_path(srv) \in DOMAIN g)>>]})
           ELSE {[ok |-> FALSE, fs |-> g,
                  events |-> <<Event("installer", p.exit, server_jars # {}, FALSE, FALSE,
                                     server_jar_path(srv) \in DOMAIN g)>>]}
        : p \in ProcessResults}

\* the request for the version list, when ensure_forge_version_selected made one
ForgeAsked(s) ==
  IF s.asked = 1 THEN <<Event("forge_versions", 0, FALSE, FALSE, s.ok, FALSE)>> ELSE <<>>

\* the download of the installer jar that download_forge_installer asked for
ForgeDownloaded(d) ==
  <<Event("installer_download", 0, FALSE, FALSE, d.ret = "True", FALSE)>>

\* a plausible slip: the result of ensure_forge_version_selected is not looked at
forge_download_server_jar_ResolutionIgnored(f, srv, req, j) ==
  UNION {UNION {IF d.ret # "True"
                THEN {Acquired("False", d.fs, s.server, req + s.asked + 1, j,
                               ForgeAsked(s) \o ForgeDownloaded(d))}
                ELSE {Acquired(IF i.ok THEN "True" ELSE "False", i.fs, s.server,
                               req + s.asked + 1, j,
                               ForgeAsked(s) \o ForgeDownloaded(d) \o i.events)
                      : i \in install_forge_server(d.fs, s.server, j)}
                : d \in download_file(f, forge_installer_path(s.server))}
         : s \in ensure_forge_version_selected(srv)}

\* ForgeServer.download_server_jar (download_forge_installer, then install_forge_server)
forge_download_server_jar(f, srv, req, j) ==
  UNION {IF ~s.ok THEN {Acquired("False", f, srv, req + s.asked, j, ForgeAsked(s))}
         ELSE UNION {IF d.ret # "True"
                     THEN {Acquired("False", d.fs, s.server, req + s.asked + 1, j,
                                    ForgeAsked(s) \o ForgeDownloaded(d))}
                     ELSE {Acquired(IF i.ok THEN "True" ELSE "False", i.fs, s.server,
                                    req + s.asked + 1, j,
                                    ForgeAsked(s) \o ForgeDownloaded(d) \o i.events)
                           : i \in install_forge_server(d.fs, s.server, j)}
                     : d \in download_file(f, forge_installer_path(s.server))}
         : s \in ensure_forge_version_selected(srv)}

\* BaseServer._download_jar_step
download_jar_step(f, srv, req, j) ==
  IF ~srv.entered THEN {Outcome("raise", "Download manager not initialized", f, srv, req, j)}
  ELSE CASE srv.kind = "vanilla" -> vanilla_download_server_jar(f, srv, req, j)
         [] srv.kind = "spigot" -> spigot_download_server_jar(f, srv, req, j)
         [] srv.kind = "forge" -> forge_download_server_jar(f, srv, req, j)

\* BaseServer.create_server_properties: every exception becomes False
create_server_properties(f, srv, req, j) ==
  {Outcome(IF w.ok THEN "True" ELSE "False", "", w.fs, srv, req, j)
   : w \in WriteFile(f, Append(srv.install_directory, "server.properties"))}

\* BaseServer.create_start_script and its Forge override: every exception, the one
\* of the JVM scan included, becomes False
create_start_script(f, srv, req, j) ==
  IF get_java_executable(j, get_required_java_version(srv)).raised
  THEN {Outcome("False", "", f, srv, req, j)}
  ELSE {Outcome(IF w.ok THEN "True" ELSE "False", "", w.fs, srv, req, j)
        : w \in WriteFile(f, start_script_path(srv))}

\* a plausible slip: a failed write is reported as success
create_eula_file_FailureIgnored(f, srv, req, j) ==
  {Outcome("True", "", w.fs, srv, req, j)
   : w \in WriteFile(f, Append(srv.install_directory, "eula.txt"))}

\* BaseServer.create_eula_file: every exception becomes False
create_eula_file(f, srv, req, j) ==
  {Outcome(IF w.ok THEN "True" ELSE "False", "", w.fs, srv, req, j)
   : w \in WriteFile(f, Append(srv.install_directory, "eula.txt"))}

\* a plausible slip: a step that returns False makes install return False
AfterStep_ReturnsFalse(r, step_name, ret, exc) ==
  LET r1 == [r EXCEPT !.started = Append(@, step_name), !.results = Append(@, ret)]
  IN IF ret = "True"
     THEN (IF r.next = Len(install_steps) THEN [r1 EXCEPT !.pc = "Completed"]
           ELSE [r1 EXCEPT !.next = @ + 1])
     ELSE IF ret = "False" THEN [r1 EXCEPT !.pc = "Failed", !.error = "", !.message = "False"]
     ELSE [r1 EXCEPT !.pc = "Failed", !.error = "ServerInstallationError",
                     !.message = "Installation failed at step '" \o step_name \o "': " \o exc]

\* a plausible slip: a step that returns False is taken as done
AfterStep_IgnoresFalse(r, step_name, ret, exc) ==
  LET r1 == [r EXCEPT !.started = Append(@, step_name), !.results = Append(@, ret)]
  IN IF ret \in {"True", "False"}
     THEN (IF r.next = Len(install_steps) THEN [r1 EXCEPT !.pc = "Completed"]
           ELSE [r1 EXCEPT !.next = @ + 1])
     ELSE [r1 EXCEPT !.pc = "Failed", !.error = "ServerInstallationError",
                     !.message = "Installation failed at step '" \o step_name \o "': " \o exc]

\* the body of the for loop of BaseServer.install once step_func has returned ret or
\* raised exc: a falsy result raises inside the inner try, so the inner handler wraps
\* it a second time
AfterStep(r, step_name, ret, exc) ==
  LET r1 == [r EXCEPT !.started = Append(@, step_name), !.results = Append(@, ret)]
      inner == IF ret = "False" THEN "Installation failed at step '" \o step_name \o "'"
               ELSE exc
  IN IF ret = "True"
     THEN (IF r.next = Len(install_steps) THEN [r1 EXCEPT !.pc = "Completed"]
           ELSE [r1 EXCEPT !.next = @ + 1])
     ELSE [r1 EXCEPT !.pc = "Failed", !.error = "ServerInstallationError",
                     !.message = "Installation failed at step '" \o step_name \o "': " \o inner]

\* "async with server": BaseServer.__aenter__
Enter ==
  /\ server.state = "built"
  /\ ~server.entered
  /\ run.pc # "Running"
  /\ server' = [server EXCEPT !.entered = TRUE]
  /\ last' = [op |-> "enter", ok |-> TRUE, err |-> "", path |-> <<>>, args |-> <<>>]
  /\ UNCHANGED <<fs, allocVars, requests, java, run, events, cacheVars, ioVars>>

\* a plausible slip: the property does not keep the directory it was given
DirectoryKnown_NeverKept(srv) == FALSE

\* BaseServer.install_directory: "if self._install_directory is None" is false
DirectoryKnown(srv) == srv.has_dir

\* the start of BaseServer.install: the log line reads the install_directory property,
\* which allocates a directory the first time when none was given
InstallBegin ==
  /\ server.state = "built"
  /\ run.pc # "Running"
  /\ ncalls < MaxInstalls
  /\ ncalls' = ncalls + 1
  /\ IF DirectoryKnown(server)
     THEN /\ run' = [Idle EXCEPT !.pc = "Running"]
          /\ UNCHANGED <<fs, server, returned>>
     ELSE \E r \in {find_available_server_directory(fs, server.kind, server.version)} :
            /\ fs' = r.fs
            /\ IF r.ok
               THEN /\ server' = [server EXCEPT !.has_dir = TRUE, !.install_directory = r.path]
                    /\ returned' = returned \cup {<<server.kind, server.version, r.path>>}
                    /\ run' = [Idle EXCEPT !.pc = "Running"]
               ELSE /\ run' = [Idle EXCEPT
                                 !.pc = "Failed", !.error = "ServerInstallationError",
                                 !.message = "Cannot create install directory: Unable to find "
                                             \o "available directory after 1000 attempts"]
                    /\ UNCHANGED <<server, returned>>
  /\ last' = [op |-> "install", ok |-> run'.pc = "Running", err |-> run'.error,
              path |-> server'.install_directory, args |-> <<>>]
  /\ events' = <<>>
  /\ UNCHANGED <<requests, java, cacheVars, ioVars>>

\* one iteration of the for loop: the step at position run.next runs and the loop body
\* handles its result
RunStep(step_name, outcomes) ==
  /\ run.pc = "Running"
  /\ install_steps[run.next] = step_name
  /\ \E o \in outcomes :
        /\ fs' = o.fs
        /\ server' = o.server
        /\ requests' = o.requests
        /\ java' = o.java
        /\ events' = o.events
        /\ run' = AfterStep(run, step_name, o.ret, o.exc)
        /\ last' = [op |-> "step", ok |-> o.ret = "True",
                    err |-> IF o.ret = "True" THEN "" ELSE "ServerInstallationError",
                    path |-> o.server.install_directory, args |-> <<step_name>>]
  /\ UNCHANGED <<allocVars, cacheVars, ioVars>>

EnsureJavaStep == RunStep("Java installation", ensure_java_step(fs, server, requests, java))
DownloadJarStep == RunStep("Server jar download", download_jar_step(fs, server, requests, java))
CreatePropertiesStep ==
  RunStep("Server properties creation", create_server_properties(fs, server, requests, java))
CreateScriptStep ==
  RunStep("Start script creation", create_start_script(fs, server, requests, java))
CreateEulaStep == RunStep("EULA file creation", create_eula_file(fs, server, requests, java))

\* Path.exists(): symbolic links are followed
Exists(f, p) == Resolve(f, p) \in DOMAIN f

\* a plausible slip: the EULA file is not looked for
is_installed_NoEula(f, srv) ==
  Exists(f, server_jar_path(srv)) /\ Exists(f, start_script_path(srv))

\* BaseServer.is_installed of a server whose installation directory is known
is_installed(f, srv) ==
  /\ Exists(f, server_jar_path(srv))
  /\ Exists(f, start_script_path(srv))
  /\ Exists(f, Append(srv.install_directory, "eula.txt"))

\* a call of server.is_installed() between installs; reading the install_directory
\* property allocates a directory the first time when none was given
IsInstalled ==
  /\ server.state = "built"
  /\ run.pc # "Running"
  /\ IF DirectoryKnown(server)
     THEN /\ last' = [op |-> "is_installed", ok |-> is_installed(fs, server), err |-> "",
                      path |-> server.install_directory, args |-> <<>>]
          /\ UNCHANGED <<fs, server, returned>>
     ELSE \E r \in {find_available_server_directory(fs, server.kind, server.version)} :
            /\ fs' = r.fs
            /\ IF r.ok
               THEN /\ server' = [server EXCEPT !.has_dir = TRUE, !.install_directory = r.path]
                    /\ returned' = returned \cup {<<server.kind, server.version, r.path>>}
                    /\ last' = [op |-> "is_installed", ok |-> is_installed(r.fs, server'),
                                err |-> "", path |-> r.path, args |-> <<>>]
               ELSE /\ last' = [op |-> "is_installed", ok |-> FALSE,
                                err |-> "ServerInstallationError", path |-> <<>>, args |-> <<>>]
                    /\ UNCHANGED <<server, returned>>
  /\ UNCHANGED <<ncalls, requests, java, run, events, cacheVars, ioVars>>

NextInstall ==
  \/ Enter
  \/ InstallBegin
  \/ IsInstalled
  \/ EnsureJavaStep
  \/ DownloadJarStep
  \/ CreatePropertiesStep
  \/ CreateScriptStep
  \/ CreateEulaStep

\* the Java toolchains of the hosts: the major versions found in the JVM directories,
\* and the major version of the java on PATH (here a Java 8 outside those directories)
JavaHosts ==
  {[platform |-> "linux", homes |-> {}, on_path |-> FALSE, path_version |-> 0, scan_error |-> FALSE, brew |-> "absent"],
   [platform |-> "linux", homes |-> {21}, on_path |-> FALSE, path_version |-> 0, scan_error |-> FALSE, brew |-> "absent"],
   [platform |-> "linux", homes |-> {}, on_path |-> TRUE, path_version |-> 8, scan_error |-> FALSE, brew |-> "absent"],
   [platform |-> "linux", homes |-> {}, on_path |-> TRUE, path_version |-> 8, scan_error |-> TRUE, brew |-> "absent"],
   [platform |-> "darwin", homes |-> {}, on_path |-> FALSE, path_version |-> 0, scan_error |-> FALSE, brew |-> "works"],
   [platform |-> "darwin", homes |-> {}, on_path |-> FALSE, path_version |-> 0, scan_error |-> FALSE, brew |-> "fails"]}

\* a host that holds a Spigot jar in the per-user cache
CachedFs ==
  FsOf(DirsAt(ServersDir) \cup DirsAt(Parent(Home \o <<".minecraft_server_cache", "spigot", "x">>))
       \cup {<<Home \o <<".minecraft_server_cache", "spigot", "spigot-1.21.jar">>, File>>})

InstallHosts == {FreshFs, BlockedFs, CachedFs}

\* the servers installed: each constructible kind, with and without a custom directory
InstallServers(f) ==
  {NewServer(f, kind, "1.21", DEFAULT_RAM_MB, DEFAULT_PORT, d[1], d[2], fv)
   : kind \in {"vanilla", "spigot", "forge"},
     d \in {<<FALSE, <<>>>>, <<TRUE, Append(ServersDir, "custom")>>},
     fv \in ForgeVersionInputs}

InitInstall ==
  /\ \E f \in InstallHosts :
       \E c \in {x \in InstallServers(f) : x.err = ""} :
          /\ (c.server.kind # "forge" => c.server.forge_version = "")
          /\ (f = BlockedFs => java = NoJava)
          /\ fs = c.fs
          /\ server = c.server
  /\ java \in JavaHosts
  /\ last = NoCall
  /\ ncalls = 0
  /\ returned = {}
  /\ requests = 0
  /\ run = Idle
  /\ api = NoCache
  /\ known = {}
  /\ events = <<>>
  /\ download = NoDownload
  /\ installers = NoInstallers
  /\ compile = NoCompile
  /\ files = NoFiles

SpecInstall == InitInstall /\ [][NextInstall]_vars

\* a step that was started returns or raises
StepReturns ==
  \/ EnsureJavaStep
  \/ DownloadJarStep
  \/ CreatePropertiesStep
  \/ CreateScriptStep
  \/ CreateEulaStep

\* every step terminates: weak fairness of StepReturns.  A step can return exactly
\* while the run is Running (StepEnabledWhileRunning), so WF_vars(StepReturns) is
\* written with that state predicate in the place of ENABLED <<StepReturns>>_vars
StepsTerminate == []<>(run.pc # "Running") \/ []<><<StepReturns>>_vars

\* the install pipeline with every step terminating
SpecInstallLive == InitInstall /\ [][NextInstall]_vars /\ StepsTerminate

----------------------------------------------------------------------------
(* The API clients and their response cache                                *)

\* number of client calls explored in one behaviour
MaxLookups == 4

\* the documents the remote side may answer with; it may change between requests
RemoteDocuments == {"doc-a", "doc-b"}

\* BaseHTTPClient.get_json: the document, or APIError ("raise") for a failed request
\* or a response that is no JSON
FetchResults == RemoteDocuments \cup {"raise"}

\* PaperAPI._fetch_version_info and LeafAPI._fetch_version_info: every exception of
\* get_json becomes the return value None
fetch_version_info(got) == IF got = "raise" THEN "None" ELSE got

\* a plausible slip: the cache is never consulted
CacheMiss_Always(cache, cache_key) == TRUE

\* "if cache_key not in self._cache"
CacheMiss(cache, cache_key) == cache_key \notin DOMAIN cache

\* CachedAPIClient.get_cached_or_fetch, fetched being what fetch_func returns when it
\* is called ("raise" when it raises): [value, cache, asked]
get_cached_or_fetch(cache, cache_key, fetched) ==
  IF CacheMiss(cache, cache_key)
  THEN (IF fetched = "raise" THEN [value |-> "None", cache |-> cache, asked |-> 1]
        ELSE [value |-> fetched,
              cache |-> [k \in DOMAIN cache \cup {cache_key} |->
                           IF k = cache_key THEN fetched ELSE cache[k]],
              asked |-> 1])
  ELSE [value |-> cache[cache_key], cache |-> cache, asked |-> 0]

\* the cache key of MinecraftServerAPI.get_version_info
version_info_key(version) == "version_info_" \o version

\* get_version_info of a client: MinecraftServerAPI.get_version_info for Paper and
\* Leaf, the override of MinecraftVersionAPI for the manifest
get_version_info(caches, family, version, got) ==
  IF family = "manifest"
  THEN [value |-> MinecraftVersionAPI_get_version_info(version),
        cache |-> caches[family], asked |-> 0]
  ELSE get_cached_or_fetch(caches[family], version_info_key(version), fetch_version_info(got))

LookupVersions == {"1.21", "1.20.4"}

\* a call client.get_version_info(version); got is what the remote side would answer
GetVersionInfo(family, version, got) ==
  /\ ncalls < MaxLookups
  /\ \E r \in {get_version_info(api, family, version, got)} :
        /\ api' = [api EXCEPT ![family] = r.cache]
        /\ requests' = requests + r.asked
        /\ last' = [op |-> "get_version_info", ok |-> r.value # "None", err |-> "",
                    value |-> r.value, asked |-> r.asked, args |-> <<family, version>>]
        /\ known' = IF r.value # "None"
                    THEN {t \in known : ~(t[1] = family /\ t[2] = version)}
                         \cup {<<family, version, r.value>>}
                    ELSE known
  /\ ncalls' = ncalls + 1
  /\ UNCHANGED <<fs, returned, server, java, run, events, ioVars>>

\* CachedAPIClient.clear_cache
ClearCache(family) ==
  /\ ncalls < MaxLookups
  /\ api' = [api EXCEPT ![family] = EmptyCache]
  /\ known' = {t \in known : t[1] # family}
  /\ last' = [op |-> "clear_cache", ok |-> TRUE, err |-> "", value |-> "None", asked |-> 0,
              args |-> <<family>>]
  /\ ncalls' = ncalls + 1
  /\ UNCHANGED <<fs, returned, server, requests, java, run, events, ioVars>>

\* CachedAPIClient.remove_from_cache
RemoveFromCache(family, cache_key) ==
  /\ ncalls < MaxLookups
  /\ api' = [api EXCEPT ![family] = [k \in DOMAIN @ \ {cache_key} |-> @[k]]]
  /\ known' = {t \in known : ~(t[1] = family /\ version_info_key(t[2]) = cache_key)}
  /\ last' = [op |-> "remove_from_cache", ok |-> TRUE, err |-> "", value |-> "None",
              asked |-> 0, args |-> <<family, cache_key>>]
  /\ ncalls' = ncalls + 1
  /\ UNCHANGED <<fs, returned, server, requests, java, run, events, ioVars>>

NextCache ==
  \/ \E family \in Families, version \in LookupVersions, got \in FetchResults :
        GetVersionInfo(family, version, got)
  \/ \E family \in Families : ClearCache(family)
  \/ \E family \in Families, version \in LookupVersions :
        RemoveFromCache(family, version_info_key(version))

InitCache ==
  /\ fs = FreshFs
  /\ last = NoCall
  /\ ncalls = 0
  /\ returned = {}
  /\ server = NoServer
  /\ requests = 0
  /\ java = NoJava
  /\ run = Idle
  /\ api = NoCache
  /\ known = {}
  /\ events = <<>>
  /\ download = NoDownload
  /\ installers = NoInstallers
  /\ compile = NoCompile
  /\ files = NoFiles

SpecCache == InitCache /\ [][NextCache]_vars

----------------------------------------------------------------------------
(* BaseDownloadClient.download_file                                        *)

\* chunks received in one download
MaxChunks == 4

\* len(chunk) of the chunks response.aiter_bytes yields
ChunkSizes == {250, 100}

\* the status codes and the header sets of the responses
StatusCodes == {200, 404, 500}
NoHeaders == [h \in {} |-> ""]
ResponseHeaders ==
  {NoHeaders} \cup {[h \in {"content-length"} |-> v] : v \in {"0", "1000", "350"}}

\* response.headers.get(name, default)
HeaderGet(headers, name, default) ==
  IF name \in DOMAIN headers THEN headers[name] ELSE default

\* int(response.headers.get("content-length", 0))
TotalSize(headers) ==
  IF "content-length" \in DOMAIN headers THEN ToInt(HeaderGet(headers, "content-length", "0"))
  ELSE 0

\* response.raise_for_status()
RaisesForStatus(status) == status >= 400

\* a plausible slip: progress is reported whatever the declared length
ShouldReport_AnyLength(has_callback, total_size) == has_callback

\* "if progress_callback and total_size > 0"
ShouldReport(has_callback, total_size) == has_callback /\ total_size > 0

\* the call ends by raising exc; what the destination holds stays
Raise(d, exc) == [d EXCEPT !.pc = "done", !.ret = "raise", !.exc = exc]

\* download_file up to the first chunk: the request, raise_for_status, the
\* content-length header and open(destination, "wb")
StartDownload(has_callback, reached, status, headers) ==
  /\ download.pc = "idle"
  /\ \E d \in {[download EXCEPT !.has_callback = has_callback]} :
       IF ~reached THEN download' = Raise(d, "DownloadError")
       ELSE IF RaisesForStatus(status) THEN download' = Raise(d, "HTTPStatusError")
       ELSE \E opened \in BOOLEAN :
              download' = IF opened
                          THEN [d EXCEPT !.pc = "streaming", !.total_size = TotalSize(headers),
                                         !.downloaded = 0, !.exists = TRUE, !.written = 0]
                          ELSE Raise(d, "DownloadError")
  /\ requests' = requests + 1
  /\ UNCHANGED <<fs, last, allocVars, server, java, run, events, cacheVars, files, installers, compile>>

\* one iteration of "async for chunk": file.write, the counter, the callback
ReceiveChunk(chunk) ==
  /\ download.pc = "streaming"
  /\ Len(download.sizes) < MaxChunks
  /\ \E wrote \in BOOLEAN :
       download' =
         IF ~wrote THEN Raise(download, "DownloadError")
         ELSE LET downloaded == download.downloaded + chunk
              IN [download EXCEPT
                    !.written = @ + chunk,
                    !.downloaded = downloaded,
                    !.sizes = Append(@, chunk),
                    !.progress = IF ShouldReport(download.has_callback, download.total_size)
                                 THEN Append(@, <<downloaded, download.total_size>>)
                                 ELSE @]
  /\ UNCHANGED <<fs, last, allocVars, installVars, cacheVars, files, installers, compile>>

\* the connection breaks while the body is read: httpx.RequestError
StreamBreaks ==
  /\ download.pc = "streaming"
  /\ download' = Raise(download, "DownloadError")
  /\ UNCHANGED <<fs, last, allocVars, installVars, cacheVars, files, installers, compile>>

\* the body ends: the file is closed and download_file returns True
StreamEnds ==
  /\ download.pc = "streaming"
  /\ download' = [download EXCEPT !.pc = "done", !.ret = "True"]
  /\ UNCHANGED <<fs, last, allocVars, installVars, cacheVars, files, installers, compile>>

NextDownload ==
  \/ \E has_callback \in BOOLEAN, reached \in BOOLEAN, status \in StatusCodes,
        headers \in ResponseHeaders : StartDownload(has_callback, reached, status, headers)
  \/ \E chunk \in ChunkSizes : ReceiveChunk(chunk)
  \/ StreamBreaks
  \/ StreamEnds

\* the destination is new, or a file of an earlier attempt
InitDownload ==
  /\ fs = FreshFs
  /\ last = NoCall
  /\ ncalls = 0
  /\ returned = {}
  /\ server = NoServer
  /\ requests = 0
  /\ java = NoJava
  /\ run = Idle
  /\ api = NoCache
  /\ known = {}
  /\ events = <<>>
  /\ download \in {NoDownload, [NoDownload EXCEPT !.exists = TRUE, !.written = 300]}
  /\ installers = NoInstallers
  /\ compile = NoCompile
  /\ files = NoFiles

SpecDownload == InitDownload /\ [][NextDownload]_vars

----------------------------------------------------------------------------
(* The files the create_* methods generate                                 *)

\* number of create_* calls explored in one behaviour
MaxWrites == 3

\* index of the first character at or after i that is no digit
RECURSIVE DigitsEnd(_, _)
DigitsEnd(s, i) ==
  IF i <= Len(s) /\ CharAt(s, i) \in CharsOf(Digits) THEN DigitsEnd(s, i + 1) ELSE i

\* a plausible slip: the unit letter is not part of the pattern
MatchEnd_NoUnit(s, i) ==
  IF i + 3 <= Len(s) /\ SubSeq(s, i, i + 3) = "-Xmx"
  THEN LET e == DigitsEnd(s, i + 4) IN IF e > i + 4 THEN e ELSE 0
  ELSE 0

\* the pattern -Xmx\d+[mMgG] at position i: the index after the match, or 0
MatchEnd(s, i) ==
  IF i + 3 <= Len(s) /\ SubSeq(s, i, i + 3) = "-Xmx"
  THEN LET e == DigitsEnd(s, i + 4)
       IN IF e > i + 4 /\ e <= Len(s) /\ CharAt(s, e) \in {"m", "M", "g", "G"} THEN e + 1 ELSE 0
  ELSE 0

\* re.sub(r'-Xmx\d+[mMgG]', repl, s) from position i on
RECURSIVE SubXmx(_, _, _)
SubXmx(s, i, repl) ==
  IF i > Len(s) THEN ""
  ELSE LET e == MatchEnd(s, i)
       IN IF e # 0 THEN repl \o SubXmx(s, e, repl)
          ELSE CharAt(s, i) \o SubXmx(s, i + 1, repl)

\* the text of server.properties (the lines without a placeholder are left out)
properties_content(srv) ==
  "# Minecraft server properties\n# Generated by Minecraft Server Installer\n"
  \o "server-port=" \o ToString(srv.server_port) \o "\nmax-players=20\n"

\* the text of eula.txt
eula_content == "# Generated by Minecraft Server Installer\neula=true\n"

\* the text BaseServer.create_start_script writes
start_script_content(srv, java_exe) ==
  "#!/bin/bash\n# Server Type: " \o srv.kind \o "\n# Minecraft Version: " \o srv.version
  \o "\n# Required Java Version: " \o ToString(get_required_java_version(srv))
  \o "\nJAVA_VERSION=$(" \o java_exe \o " -version 2>&1)\nREQUIRED_JAVA="
  \o ToString(get_required_java_version(srv))
  \o "\necho \"Allocating " \o ToString(srv.ram_allocation) \o "MB of RAM\"\n"
  \o "screen -S \"svforge-" \o srv.kind \o "-" \o srv.version \o "\" " \o java_exe
  \o " -Xmx" \o ToString(srv.ram_allocation) \o "M -Xms512M -jar " \o get_jar_filename(srv)
  \o " nogui\n"

\* the texts ForgeServer.create_start_script writes: with run.sh, and without
forge_modified_script(srv) ==
  "#!/bin/bash\n# Minecraft Forge Server Start Script (Modified)\n"
  \o "echo \"Starting Forge server version " \o srv.version \o "-" \o srv.forge_version
  \o "...\"\necho \"Allocating " \o ToString(srv.ram_allocation) \o "MB of RAM\"\n"
  \o "screen -S \"svforge-forge-" \o srv.version \o "\" ./run.sh\n"

forge_fallback_script(srv, java_exe, title) ==
  "#!/bin/bash\n# Minecraft Forge Server Start Script" \o title \o "\n"
  \o "echo \"Starting Forge server version " \o srv.version \o "-" \o srv.forge_version
  \o "...\"\necho \"Allocating " \o ToString(srv.ram_allocation) \o "MB of RAM\"\n"
  \o "screen -S \"svforge-forge-" \o srv.version \o "\" " \o java_exe
  \o " -Xmx" \o ToString(srv.ram_allocation) \o "M -Xms512M -jar " \o get_jar_filename(srv)
  \o " nogui\n"

\* open(p, 'w') and write(text): [ok, fs, files]; it fails when p cannot be opened
WriteText(f, fl, p, text) ==
  IF Parent(p) \notin DOMAIN f \/ f[Parent(p)].type # "dir" \/ (p \in DOMAIN f /\ f[p].type = "dir")
  THEN [ok |-> FALSE, fs |-> f, files |-> fl]
  ELSE [ok |-> TRUE, fs |-> AddFile(f, p),
        files |-> [x \in DOMAIN fl \cup {p} |-> IF x = p THEN text ELSE fl[x]]]

run_script(srv) == Append(srv.install_directory, "run.sh")

\* java_exe of the start scripts: "java" when no executable is found
ScriptJava(srv, j) ==
  LET found == get_java_executable(j, get_required_java_version(srv))
  IN IF found.exe = "" THEN "java" ELSE found.exe

\* the three generators as they act on the files: [ok, fs, files]
generate_server_properties(f, fl, srv, j) ==
  WriteText(f, fl, Append(srv.install_directory, "server.properties"), properties_content(srv))

generate_eula_file(f, fl, srv, j) ==
  WriteText(f, fl, Append(srv.install_directory, "eula.txt"), eula_content)

generate_start_script(f, fl, srv, j) ==
  IF get_java_executable(j, get_required_java_version(srv)).raised
  THEN [ok |-> FALSE, fs |-> f, files |-> fl]
  ELSE IF srv.kind # "forge"
       THEN WriteText(f, fl, start_script_path(srv), start_script_content(srv, ScriptJava(srv, j)))
  ELSE IF run_script(srv) \notin DOMAIN f
       THEN WriteText(f, fl, start_script_path(srv), forge_fallback_script(srv, ScriptJava(srv, j), ""))
  ELSE IF run_script(srv) \notin DOMAIN fl
       THEN WriteText(f, fl, start_script_path(srv),
                      forge_fallback_script(srv, ScriptJava(srv, j), " (Fallback)"))
  ELSE LET modified_content == SubXmx(fl[run_script(srv)], 1,
                                      "-Xmx" \o ToString(srv.ram_allocation) \o "M")
           patched == WriteText(f, fl, run_script(srv), modified_content)
       IN WriteText(patched.fs, patched.files, start_script_path(srv), forge_modified_script(srv))

\* one call of a generator
Generate(name, r) ==
  /\ ncalls < MaxWrites
  /\ ncalls' = ncalls + 1
  /\ fs' = r.fs
  /\ files' = r.files
  /\ events' = Append(events, name)
  /\ last' = [op |-> name, ok |-> r.ok, err |-> "", path |-> server.install_directory,
              args |-> <<>>]
  /\ UNCHANGED <<returned, server, requests, java, run, cacheVars, download, installers, compile>>

CreateServerProperties ==
  Generate("create_server_properties", generate_server_properties(fs, files, server, java))
CreateStartScript ==
  Generate("create_start_script", generate_start_script(fs, files, server, java))
CreateEulaFile == Generate("create_eula_file", generate_eula_file(fs, files, server, java))

NextGenerate ==
  \/ CreateServerProperties
  \/ CreateStartScript
  \/ CreateEulaFile

\* the run.sh a Forge installer may have left: none, one of these texts, or one that
\* cannot be read (a directory of that name)
RunScripts ==
  {"java @user_jvm_args.txt \"$@\"\n",
   "java -Xmx4G -Xms1G @args\n",
   "java -Xmx512m -Xmx8G9 -Xmx-Xmx16gG\n"}

GenerateServers(f) ==
  {NewServer(f, kind, "1.21", ram, DEFAULT_PORT, TRUE, Append(ServersDir, "custom"), fv)
   : kind \in {"vanilla", "spigot", "forge"}, ram \in {MIN_RAM_MB, DEFAULT_RAM_MB},
     fv \in ForgeVersionInputs}

InitGenerate ==
  /\ \E c \in {x \in GenerateServers(FreshFs) : x.err = ""} :
       /\ (c.server.kind # "forge" => c.server.forge_version = "")
       /\ server = c.server
       /\ \/ fs = c.fs /\ files = NoFiles
          \/ /\ c.server.kind = "forge"
             /\ fs = [x \in DOMAIN c.fs \cup {run_script(c.server)} |->
                        IF x = run_script(c.server) THEN Dir ELSE c.fs[x]]
             /\ files = NoFiles
          \/ /\ c.server.kind = "forge"
             /\ fs = AddFile(c.fs, run_script(c.server))
             /\ \E text \in RunScripts : files = [x \in {run_script(c.server)} |-> text]
  /\ java \in JavaHosts
  /\ last = NoCall
  /\ ncalls = 0
  /\ returned = {}
  /\ requests = 0
  /\ run = Idle
  /\ api = NoCache
  /\ known = {}
  /\ events = <<>>
  /\ download = NoDownload
  /\ installers = NoInstallers
  /\ compile = NoCompile

SpecGenerate == InitGenerate /\ [][NextGenerate]_vars

----------------------------------------------------------------------------
(* A server object from its construction to its installs                   *)

NextLifetime ==
  \/ NextServer
  \/ NextInstall

\* a host with a java on the PATH and no server object yet
InitLifetime ==
  /\ fs = FreshFs
  /\ last = NoCall
  /\ ncalls = 0
  /\ returned = {}
  /\ server = NoServer
  /\ requests = 0
  /\ java = [NoJava EXCEPT !.on_path = TRUE, !.path_version = 8]
  /\ run = Idle
  /\ api = NoCache
  /\ known = {}
  /\ events = <<>>
  /\ download = NoDownload
  /\ installers = NoInstallers
  /\ compile = NoCompile
  /\ files = NoFiles

SpecLifetime == InitLifetime /\ [][NextLifetime]_vars

----------------------------------------------------------------------------
(* The version and build listings of the API clients                       *)

\* number of resolver calls explored in one behaviour
MaxQueries == 2

\* "build: int = None": the value that stands for None
NoBuild == -1

PAPER_API_URL == "https://api.papermc.io/v2"
LEAF_API_URL == "https://api.leafmc.one"

\* a JSON document: a dictionary with some of the keys "versions" and "builds", or
\* something that is no dictionary
Document(isdict, keys, versions, builds) ==
  [isdict |-> isdict, keys |-> keys, versions |-> versions, builds |-> builds]

Documents ==
  {Document(TRUE, {"versions"}, <<"1.21", "1.20.4">>, <<>>),
   Document(TRUE, {"builds"}, <<>>, <<10, 130, 27>>),
   Document(TRUE, {"versions", "builds"}, <<"1.21">>, <<130>>),
   Document(TRUE, {"builds"}, <<>>, <<>>),
   Document(TRUE, {}, <<>>, <<>>),
   Document(FALSE, {}, <<>>, <<>>)}

\* what a request can come to: no connection, an error status, a body that is no
\* JSON, or a document
Replies ==
  {[kind |-> k, doc |-> Document(FALSE, {}, <<>>, <<>>)]
   : k \in {"unreachable", "http_error", "not_json"}}
  \cup {[kind |-> "json", doc |-> d] : d \in Documents}

\* BaseHTTPClient.get_json: [raised, data]
get_json(reply) ==
  IF reply.kind \in {"unreachable", "http_error", "not_json"}
  THEN [raised |-> "APIError", data |-> reply.doc]
  ELSE [raised |-> "", data |-> reply.doc]

\* BaseHTTPClient.get_json_async: [raised, data]; httpx.HTTPStatusError is no
\* httpx.RequestError and passes the handlers
get_json_async(reply) ==
  IF reply.kind \in {"unreachable", "not_json"} THEN [raised |-> "APIError", data |-> reply.doc]
  ELSE IF reply.kind = "http_error" THEN [raised |-> "HTTPStatusError", data |-> reply.doc]
  ELSE [raised |-> "", data |-> reply.doc]

GetJson(mode, reply) == IF mode = "sync" THEN get_json(reply) ELSE get_json_async(reply)

\* data.get(key, []): [raised, value]
DataGet(r, key) ==
  IF r.raised # "" THEN [raised |-> r.raised, value |-> <<>>]
  ELSE IF ~r.data.isdict THEN [raised |-> "AttributeError", value |-> <<>>]
  ELSE IF key \notin r.data.keys THEN [raised |-> "", value |-> <<>>]
  ELSE [raised |-> "", value |-> IF key = "versions" THEN r.data.versions ELSE r.data.builds]

\* a plausible slip: only APIError is caught
CatchAll_OnlyAPIError(r) == IF r.raised = "APIError" THEN [raised |-> "", value |-> <<>>] ELSE r

\* "except Exception as e: ... return []"
CatchAll(r) == IF r.raised # "" THEN [raised |-> "", value |-> <<>>] ELSE r

\* PaperAPI / LeafAPI .get_available_versions and .get_available_versions_async;
\* MinecraftVersionAPI.get_available_versions[_async] is get_vanilla_versions, which
\* reads self.MOJANG_MANIFEST_URL, an attribute the class does not have
get_available_versions(family, mode, reply) ==
  IF family = "manifest"
  THEN CatchAll([raised |-> "AttributeError", value |-> <<>>]) @@ [asked |-> 0]
  ELSE CatchAll(DataGet(GetJson(mode, reply), "versions")) @@ [asked |-> 1]

\* PaperAPI / LeafAPI .get_builds and .get_builds_async
get_builds(family, mode, reply) ==
  CatchAll(DataGet(GetJson(mode, reply), "builds")) @@ [asked |-> 1]

\* MinecraftVersionAPI.get_paper_versions, get_paper_builds, get_leaf_versions,
\* get_leaf_builds: each reads self._client, an attribute the class does not have
FacadeNames == {"get_paper_versions", "get_paper_builds", "get_leaf_versions", "get_leaf_builds"}
facade_list(name) == CatchAll([raised |-> "AttributeError", value |-> <<>>]) @@ [asked |-> 0]

\* a plausible slip: the last build listed is taken for the latest
MaxOf_Last(builds) == builds[Len(builds)]

\* max(builds)
MaxOf(builds) == CHOOSE b \in {builds[i] : i \in DOMAIN builds} : \A i \in DOMAIN builds : b >= builds[i]

\* BaseVersionAPI.build_url
build_url(base_url, endpoint) == base_url \o "/" \o endpoint

\* PaperAPI._build_download_url and LeafAPI._build_download_url: [url, asked];
\* url = "None" when there is none
build_download_url(family, version, build, reply) ==
  LET base_url == IF family = "paper" THEN PAPER_API_URL ELSE LEAF_API_URL
      Url(b) == build_url(base_url, "projects/" \o family \o "/versions/" \o version
                                    \o "/builds/" \o ToString(b) \o "/downloads/" \o family
                                    \o "-" \o version \o "-" \o ToString(b) \o ".jar")
  IN IF build = NoBuild
     THEN LET builds == get_builds(family, "sync", reply).value
          IN IF builds = <<>> THEN [url |-> "None", asked |-> 1]
             ELSE [url |-> Url(MaxOf(builds)), asked |-> 1]
     ELSE [url |-> Url(build), asked |-> 0]

\* one call on an API client
Query(op, value, url, asked, raised, args) ==
  /\ ncalls < MaxQueries
  /\ ncalls' = ncalls + 1
  /\ requests' = requests + asked
  /\ last' = [op |-> op, ok |-> raised = "", err |-> raised, value |-> value, url |-> url,
              asked |-> asked, args |-> args]
  /\ UNCHANGED <<fs, returned, server, java, run, events, cacheVars, ioVars>>

GetAvailableVersions(family, mode, reply) ==
  \E r \in {get_available_versions(family, mode, reply)} :
     Query("get_available_versions", r.value, "", r.asked, r.raised, <<family, mode, reply>>)

GetBuilds(family, mode, version, reply) ==
  \E r \in {get_builds(family, mode, reply)} :
     Query("get_builds", r.value, "", r.asked, r.raised, <<family, mode, reply, version>>)

FacadeList(name, version) ==
  \E r \in {facade_list(name)} :
     Query(name, r.value, "", r.asked, r.raised, <<"manifest", "async", version>>)

GetDownloadUrl(family, version, build, reply) ==
  \E r \in {build_download_url(family, version, build, reply)} :
     Query("get_download_url", <<>>, r.url, r.asked, "", <<family, "sync", reply, version, build>>)

\* the javaVersion.majorVersion the detail document of the manifest carries for the
\* version; 0 when the manifest does not list the version
ManifestJavaMajors == {0, 16, 17, 21}

\* api.get_java_version(minecraft_version) against a manifest whose detail document
\* names the Java major version java_major
GetJavaVersion(minecraft_version, java_major) ==
  \E r \in {get_java_version(minecraft_version)} :
     Query("get_java_version", <<r>>, "", 0, "", <<"manifest", "sync", java_major, minecraft_version>>)

\* server.get_required_java_version() on a server of the version, before and after
\* __aenter__ set self._api
GetRequiredJavaVersion(version, entered) ==
  \E r \in {get_required_java_version([NoServer EXCEPT !.state = "built", !.kind = "vanilla",
                                                       !.version = version, !.entered = entered])} :
     Query("get_required_java_version", <<r>>, "", 0, "", <<"manifest", "sync", 0, version>>)

\* versions asked about: around the steps of the table, with components of one and
\* of two digits, and texts that are no dotted release
JavaVersionInputs ==
  {"1.7.10", "1.9", "1.10", "1.10.2", "1.12", "1.16.5", "1.17", "1.20.4", "1.20.5", "1.20.10",
   "1.21", "2.0", "1.x", "latest", ""}

BuildInputs == {NoBuild, 0, 27}

NextResolver ==
  \/ \E family \in Families, mode \in {"sync", "async"}, reply \in Replies :
        GetAvailableVersions(family, mode, reply)
  \/ \E family \in {"paper", "leaf"}, mode \in {"sync", "async"}, reply \in Replies :
        GetBuilds(family, mode, "1.21", reply)
  \/ \E name \in FacadeNames : FacadeList(name, "1.21")
  \/ \E family \in {"paper", "leaf"}, build \in BuildInputs, reply \in Replies :
        GetDownloadUrl(family, "1.21", build, reply)
  \/ \E minecraft_version \in JavaVersionInputs, java_major \in ManifestJavaMajors :
        GetJavaVersion(minecraft_version, java_major)
  \/ \E version \in JavaVersionInputs \cap DEFAULT_MINECRAFT_VERSIONS, entered \in BOOLEAN :
        GetRequiredJavaVersion(version, entered)

SpecResolver == InitCache /\ [][NextResolver]_vars

----------------------------------------------------------------------------
(* Calls of the name validator                                             *)

\* number of validator calls explored in one behaviour
MaxChecks == 2

RECURSIVE Repeat(_, _)
Repeat(c, n) == IF n = 0 THEN "" ELSE c \o Repeat(c, n - 1)

\* names given to the validator: plain ones, dotted ones, device names in several
\* cases, names with characters outside the class, and names around the length limit
NameInputs ==
  {"", "paper", "1.20.4", "a_b-c", "-", ".", "..", ".hidden", "a..b", "CON", "con", "Lpt9",
   "COM1", "COM0", "COM10", "CON.txt", "nul", "a b", "a/b", "../etc", "~", "paper\n", "\n",
   "a\nb", "paper\n\n", "CON\n", Repeat("a", MaxNameLength), Repeat("a", MaxNameLength + 1),
   Repeat("a", MaxNameLength) \o "\n"}

\* SecurePathValidator.validate_server_name(name)
ValidateServerName(name) ==
  /\ ncalls < MaxChecks
  /\ ncalls' = ncalls + 1
  /\ last' = [op |-> "validate_server_name", ok |-> validate_server_name(name), err |-> "",
              value |-> "", asked |-> 0, args |-> <<name>>]
  /\ UNCHANGED <<fs, returned, server, requests, java, run, events, cacheVars, ioVars>>

\* SecurePathValidator.sanitize_path_component(component)
SanitizePathComponent(component) ==
  /\ ncalls < MaxChecks
  /\ ncalls' = ncalls + 1
  /\ \E r \in {sanitize_path_component(component)} :
        last' = [op |-> "sanitize_path_component", ok |-> r.ok,
                 err |-> IF r.ok THEN "" ELSE "PathValidationError",
                 value |-> r.value, asked |-> 0, args |-> <<component>>]
  /\ UNCHANGED <<fs, returned, server, requests, java, run, events, cacheVars, ioVars>>

NextValidator ==
  \/ \E name \in NameInputs : ValidateServerName(name)
  \/ \E component \in NameInputs : SanitizePathComponent(component)

SpecValidator == InitCache /\ [][NextValidator]_vars

----------------------------------------------------------------------------
(* Concurrent Spigot installs of one version and their shared jar cache    *)

\* the installs running at the same time
NInstallers == 2
Installers == 1..NInstallers

\* the chunks shutil.copy2 moves a jar in
JarChunks == 2

\* a jar file: whether it exists, and for each chunk it holds whether the chunk has
\* the bytes of the compiled jar (FALSE: a hole left by a write past the end)
NoFile == [exists |-> FALSE, chunks |-> <<>>]
FullJar == [exists |-> TRUE, chunks |-> [k \in 1..JarChunks |-> TRUE]]

\* open(dst, 'wb'): the file is created or cut to length 0
Truncated == [exists |-> TRUE, chunks |-> <<>>]

\* a plausible slip: the copy is taken for one indivisible step
NextOffset_WholeFile(off) == JarChunks

\* the copy loop of shutil.copyfile moves one chunk, then the next
NextOffset(off) == off + 1

\* a writer whose file offset is off writes the chunks off+1 .. upto
WriteChunks(file, off, upto) ==
  LET n == IF Len(file.chunks) > upto THEN Len(file.chunks) ELSE upto
  IN [exists |-> TRUE,
      chunks |-> [k \in 1..n |-> IF k > off /\ k <= upto THEN TRUE
                                 ELSE IF k <= Len(file.chunks) THEN file.chunks[k] ELSE FALSE]]

\* a reader at offset off reads up to the next offset, as far as the file goes
ReadChunks(file, off) ==
  LET upto == IF NextOffset(off) < Len(file.chunks) THEN NextOffset(off) ELSE Len(file.chunks)
  IN SubSeq(file.chunks, off + 1, upto)

\* an install that has not begun: its server jar does not exist
NotBegun == [pc |-> "start", jar |-> NoFile, off |-> 0, ret |-> ""]

SetInstaller(i, st, cached) ==
  /\ installers' = [cached_jar |-> cached, proc |-> [installers.proc EXCEPT ![i] = st]]
  /\ UNCHANGED <<fs, last, allocVars, installVars, cacheVars, download, files, compile>>

\* SpigotServer.check_spigot_cache up to the opening of the copy: cached_jar.exists(),
\* then shutil.copy2 opens the cached jar and creates the server jar
CheckSpigotCache(i) ==
  LET p == installers.proc[i]
  IN /\ p.pc = "start"
     /\ IF installers.cached_jar.exists
        THEN SetInstaller(i, [p EXCEPT !.pc = "copy_from_cache", !.jar = Truncated, !.off = 0],
                          installers.cached_jar)
        ELSE SetInstaller(i, [p EXCEPT !.pc = "build"], installers.cached_jar)

\* the copy loop of shutil.copy2(cached_jar, server_jar_path): at the end of the
\* cached file as it is now the copy is done and download_server_jar returns True
CopyFromCache(i) ==
  LET p == installers.proc[i]
      got == ReadChunks(installers.cached_jar, p.off)
  IN /\ p.pc = "copy_from_cache"
     /\ IF got # <<>>
        THEN SetInstaller(i, [p EXCEPT !.jar = [exists |-> TRUE, chunks |-> p.jar.chunks \o got],
                                       !.off = p.off + Len(got)],
                          installers.cached_jar)
        ELSE SetInstaller(i, [p EXCEPT !.pc = "done", !.ret = "True"], installers.cached_jar)

\* download_buildtools and compile_spigot of SpigotServer.download_server_jar: the
\* build fails, or the compiled jar is moved to the server jar path
BuildSpigot(i, ok) ==
  LET p == installers.proc[i]
  IN /\ p.pc = "build"
     /\ IF ok
        THEN SetInstaller(i, [p EXCEPT !.pc = "cache_open", !.jar = FullJar], installers.cached_jar)
        ELSE SetInstaller(i, [p EXCEPT !.pc = "done", !.ret = "False"], installers.cached_jar)

\* SpigotServer.cache_spigot_jar: shutil.copy2(server_jar_path, cached_jar) opens the
\* cached jar for writing
CacheSpigotJarOpen(i) ==
  LET p == installers.proc[i]
  IN /\ p.pc = "cache_open"
     /\ SetInstaller(i, [p EXCEPT !.pc = "cache_write", !.off = 0], Truncated)

\* the copy loop of shutil.copy2(server_jar_path, cached_jar); after it
\* download_server_jar returns True
CacheSpigotJarWrite(i) ==
  LET p == installers.proc[i]
      upto == IF NextOffset(p.off) < JarChunks THEN NextOffset(p.off) ELSE JarChunks
  IN /\ p.pc = "cache_write"
     /\ IF p.off < JarChunks
        THEN SetInstaller(i, [p EXCEPT !.off = upto],
                          WriteChunks(installers.cached_jar, p.off, upto))
        ELSE SetInstaller(i, [p EXCEPT !.pc = "done", !.ret = "True"], installers.cached_jar)

NextSharedCache ==
  \E i \in Installers :
     \/ CheckSpigotCache(i)
     \/ CopyFromCache(i)
     \/ \E ok \in BOOLEAN : BuildSpigot(i, ok)
     \/ CacheSpigotJarOpen(i)
     \/ CacheSpigotJarWrite(i)

InitSharedCache ==
  /\ fs = FreshFs
  /\ last = NoCall
  /\ ncalls = 0
  /\ returned = {}
  /\ server = NoServer
  /\ requests = 0
  /\ java = NoJava
  /\ run = Idle
  /\ api = NoCache
  /\ known = {}
  /\ events = <<>>
  /\ download = NoDownload
  /\ files = NoFiles
  /\ \E cached \in {NoFile, FullJar} :
        installers = [cached_jar |-> cached, proc |-> [i \in Installers |-> NotBegun]]
  /\ compile = NoCompile

SpecSharedCache == InitSharedCache /\ [][NextSharedCache]_vars

----------------------------------------------------------------------------
(* The acquisition of a Leaf server                                        *)

\* LeafServer.is_direct_download_version: version.parse(self.version) <
\* version.parse("1.21.4"), False when the version does not parse
is_direct_download_version(version) ==
  LET ver == ParseVersion(version)
  IN ver.ok /\ ~ReleaseGE(ver.release, <<1, 21, 4>>)

\* LeafServer.get_direct_download_url
get_direct_download_url(version) ==
  "https://api.leafmc.one/v2/projects/leaf/versions/" \o version
    \o "/builds/latest/downloads/leaf-" \o version \o ".jar"

\* MinecraftVersionAPI.get_leaf_download_url
get_leaf_download_url(version, build) ==
  LEAF_API_URL \o "/projects/leaf/versions/" \o version \o "/builds/" \o ToString(build)
    \o "/downloads/leaf-" \o version \o "-" \o ToString(build) \o ".jar"

\* LeafServer.ensure_build_selected with get_latest_build: [ok, build, listed, asked]
leaf_ensure_build_selected(version, build) ==
  IF build = NoBuild
  THEN LET builds == facade_list("get_leaf_builds")
       IN IF builds.value = <<>>
          THEN [ok |-> FALSE, build |-> build, listed |-> 1, asked |-> builds.asked]
          ELSE [ok |-> TRUE, build |-> MaxOf(builds.value), listed |-> 1, asked |-> builds.asked]
  ELSE [ok |-> TRUE, build |-> build, listed |-> 0, asked |-> 0]

\* LeafServer.download_server_jar up to the call of download_file: whether the
\* download is started, its URL, the build afterwards and the build lists asked for
leaf_download_server_jar(version, build) ==
  IF is_direct_download_version(version)
  THEN [downloads |-> TRUE, url |-> get_direct_download_url(version), build |-> build,
        listed |-> 0]
  ELSE LET s == leaf_ensure_build_selected(version, build)
       IN IF ~s.ok
          THEN [downloads |-> FALSE, url |-> "", build |-> s.build, listed |-> s.listed]
          ELSE [downloads |-> TRUE, url |-> get_leaf_download_url(version, s.build),
                build |-> s.build, listed |-> s.listed]

----------------------------------------------------------------------------
(* Allocator calls with names that are no valid names                      *)

\* (server_type, version) pairs of which one component fails validate_server_name,
\* next to a pair that passes
InvalidRequests ==
  {<<"pa/per", "1.21">>, <<"paper", "">>, <<"CON", "1.21">>, <<"paper", ".21">>,
   <<"paper", "1.21">>}

\* number of allocator calls explored in one behaviour with such names
MaxInvalidCalls == 2

NextInvalidNames ==
  \/ \E rq \in InvalidRequests : AllocateCall(rq[1], rq[2], MaxInvalidCalls)
  \/ \E t \in returned : WriteInto(t[3])

SpecInvalidNames == InitPath /\ [][NextInvalidNames]_vars

----------------------------------------------------------------------------
(* The jar names and download URLs of Paper and Leaf servers               *)

\* PaperServer.get_jar_filename and LeafServer.get_jar_filename: "if self.build" is
\* false for None and for 0
build_jar_filename(kind, version, build) ==
  IF build # NoBuild /\ build # 0
  THEN kind \o "-" \o version \o "-" \o ToString(build) \o ".jar"
  ELSE kind \o "-" \o version \o "-latest.jar"

\* MinecraftVersionAPI.get_paper_download_url
get_paper_download_url(version, build) ==
  PAPER_API_URL \o "/projects/paper/versions/" \o version \o "/builds/" \o ToString(build)
    \o "/downloads/paper-" \o version \o "-" \o ToString(build) \o ".jar"

\* PaperServer.download_server_jar up to the call of download_file, with
\* ensure_build_selected and get_latest_build: whether the download is started, its
\* URL, the build afterwards and the build lists asked for
paper_download_server_jar(version, build) ==
  LET builds == facade_list("get_paper_builds")
  IN IF build # NoBuild
     THEN [downloads |-> TRUE, url |-> get_paper_download_url(version, build), build |-> build,
           listed |-> 0]
     ELSE IF builds.value = <<>>
          THEN [downloads |-> FALSE, url |-> "", build |-> build, listed |-> 1]
          ELSE [downloads |-> TRUE, url |-> get_paper_download_url(version, MaxOf(builds.value)),
                build |-> MaxOf(builds.value), listed |-> 1]

----------------------------------------------------------------------------
(* SpigotServer.compile_spigot and the working directory                   *)

\* the compile_spigot calls of one event loop, each on a server of its own
NCompiles == 2
Compiles == 1..NCompiles

\* lines of BuildTools output read before the end of the stream
MaxLines == 1

\* the directories the process may be in when the first call is made
StartDirs == {Home, ServersDir}

\* self.build_directory of the server of call i
CompileBuildDir(i) == ServersDir \o <<"spigot-1.21" \o (IF i = 1 THEN "" ELSE "-1"), "build">>

\* a call that has not been made
NotCalled == [pc |-> "idle", entry |-> <<>>, original_cwd |-> <<>>, changed |-> FALSE,
              lines |-> 0, ret |-> ""]

\* a plausible slip: the directory is changed back at the end of the try block,
\* not in a finally clause
RestoresOn_ReturnOnly(exit) == exit # "raise"

\* "finally: os.chdir(original_cwd)" runs on every way out of the inner try
RestoresOn(exit) == TRUE

SetCompile(i, st, dir) ==
  /\ compile' = [cwd |-> dir, call |-> [compile.call EXCEPT ![i] = st]]
  /\ UNCHANGED <<fs, last, allocVars, installVars, cacheVars, download, files, installers>>

\* the way out of the inner try: the finally clause, then the return value ("True",
\* or "False" from a return False or from the outer "except Exception")
Leave(i, exit) ==
  LET c == compile.call[i]
  IN SetCompile(i, [c EXCEPT !.pc = "done", !.ret = IF exit = "return_true" THEN "True" ELSE "False"],
                IF RestoresOn(exit) THEN c.original_cwd ELSE compile.cwd)

\* compile_spigot up to its first await: no Java executable returns False at once;
\* os.getcwd(); os.chdir(self.build_directory), which raises when the directory
\* cannot be entered
CompileBegin(i, has_java, can_enter) ==
  LET c == compile.call[i]
  IN /\ c.pc = "idle"
     /\ IF ~has_java \/ ~can_enter
        THEN SetCompile(i, [c EXCEPT !.pc = "done", !.entry = compile.cwd, !.ret = "False"],
                        compile.cwd)
        ELSE SetCompile(i, [c EXCEPT !.pc = "spawn", !.entry = compile.cwd,
                                     !.original_cwd = compile.cwd, !.changed = TRUE],
                        CompileBuildDir(i))

\* await asyncio.create_subprocess_exec(...): the process starts, or the call raises
Spawn(i, ok) ==
  /\ compile.call[i].pc = "spawn"
  /\ IF ok THEN SetCompile(i, [compile.call[i] EXCEPT !.pc = "read"], compile.cwd)
     ELSE Leave(i, "raise")

\* await process.stdout.readline(): a line, the end of the stream, or an exception
ReadLine(i, what) ==
  LET c == compile.call[i]
  IN /\ c.pc = "read"
     /\ CASE what = "line" -> /\ c.lines < MaxLines
                              /\ SetCompile(i, [c EXCEPT !.lines = @ + 1], compile.cwd)
          [] what = "eof" -> SetCompile(i, [c EXCEPT !.pc = "wait"], compile.cwd)
          [] what = "raise" -> Leave(i, "raise")

\* await process.wait() and what follows it: the return code, whether the compiled
\* jar is there, and whether shutil.move raised
WaitAndMove(i, returncode, artifact, moved) ==
  /\ compile.call[i].pc = "wait"
  /\ IF ~ProcessSucceeded(returncode) \/ ~artifact THEN Leave(i, "return_false")
     ELSE IF moved THEN Leave(i, "return_true")
     ELSE Leave(i, "raise")

NextCompile ==
  \E i \in Compiles :
     \/ \E has_java \in BOOLEAN, can_enter \in BOOLEAN : CompileBegin(i, has_java, can_enter)
     \/ \E ok \in BOOLEAN : Spawn(i, ok)
     \/ \E what \in {"line", "eof", "raise"} : ReadLine(i, what)
     \/ \E returncode \in {0, 1}, artifact \in BOOLEAN, moved \in BOOLEAN :
           WaitAndMove(i, returncode, artifact, moved)

InitCompile ==
  /\ fs = FreshFs
  /\ last = NoCall
  /\ ncalls = 0
  /\ returned = {}
  /\ server = NoServer
  /\ requests = 0
  /\ java = NoJava
  /\ run = Idle
  /\ api = NoCache
  /\ known = {}
  /\ events = <<>>
  /\ download = NoDownload
  /\ files = NoFiles
  /\ installers = NoInstallers
  /\ \E dir \in StartDirs : compile = [cwd |-> dir, call |-> [i \in Compiles |-> NotCalled]]

SpecCompile == InitCompile /\ [][NextCompile]_vars

----------------------------------------------------------------------------
(* Properties of the path validator and the allocator                      *)

\* the step just taken was a call of find_available_server_directory
AllocateStep == ncalls' # ncalls /\ last'.op = "allocate"

\* C3: validate_and_resolve_path returns a path exactly when the canonical candidate is
\* the canonical root or lies below it component by component, and raises otherwise
C3_ResolvesOnlyWithinRoot ==
  last.op = "resolve" =>
    /\ last.ok <=> IsWithin(Resolve(fs, last.args[1]), Resolve(fs, last.args[2]))
    /\ last.ok => last.path = Resolve(fs, last.args[1])

\* C4: a directory handed out by the allocator lies strictly below the sandbox root
C4_AllocatedBelowRoot ==
  (last.op = "allocate" /\ last.ok) =>
    /\ IsWithin(last.path, ServersDir)
    /\ last.path # ServersDir

\* C7: the directory an allocation returns is empty when it is returned, and a
\* directory that already had content before the call is not returned
C7_ReturnedDirectoryIsEmpty ==
  [][(AllocateStep /\ last'.ok) =>
       /\ last'.path \in DOMAIN fs'
       /\ fs'[last'.path].type = "dir"
       /\ Entries(fs', last'.path) = {}
       /\ Entries(fs, last'.path) = {}]_vars

\* C7 witness: a second allocation for the same request succeeded after the directory
\* returned earlier had received content
C7_Witness ==
  /\ last.op = "allocate" /\ last.ok
  /\ \E t \in returned :
       /\ t[1] = last.args[1] /\ t[2] = last.args[2]
       /\ t[3] # last.path
       /\ Entries(fs, t[3]) # {}

\* the name the specification gives instance i of (kind, version)
InstanceName(kind, version, i) ==
  IF i = 0 THEN kind \o "-" \o version ELSE kind \o "-" \o version \o "-" \o ToString(i)

\* instance i is free on host f: its directory is absent or an empty directory
InstanceFree(f, kind, version, i) ==
  LET p == Append(ServersDir, InstanceName(kind, version, i))
  IN p \notin DOMAIN f \/ IsEmptyDir(f, Resolve(f, p))

\* C8 as stated: the allocator returns root/{kind}-{version}[-{i}] for the smallest
\* instance i in 0..999 whose directory does not exist or exists empty
C8_SmallestFreeInstance ==
  [][AllocateStep =>
       \E i \in 0..(max_instances - 1) :
          /\ InstanceFree(fs, last'.args[1], last'.args[2], i)
          /\ \A j \in 0..(i - 1) : ~InstanceFree(fs, last'.args[1], last'.args[2], j)
          /\ last'.ok
          /\ last'.path = Append(ServersDir, InstanceName(last'.args[1], last'.args[2], i))]_vars

\* get_server_directory succeeds for instance i on host f and yields an empty directory
InstanceUsable(f, kind, version, i) ==
  LET r == get_server_directory(f, kind, version, i)
  IN r.ok /\ Entries(r.fs, r.path) = {}

\* C8 amended: the allocator returns the symlink-resolved path of root/{kind}-{version}
\* (i = 0) or root/{kind}-{version}-{i} (i > 0) for the smallest instance i in 0..999 at
\* which get_server_directory succeeds and yields an empty directory, and raises when
\* there is no such instance
C8_SmallestUsableInstance ==
  [][AllocateStep =>
       IF last'.ok
       THEN \E i \in 0..(max_instances - 1) :
              /\ InstanceUsable(fs, last'.args[1], last'.args[2], i)
              /\ \A j \in 0..(i - 1) : ~InstanceUsable(fs, last'.args[1], last'.args[2], j)
              /\ last'.path = Resolve(fs, Append(ServersDir,
                                 InstanceName(last'.args[1], last'.args[2], i)))
       ELSE \A i \in 0..(max_instances - 1) :
              ~InstanceUsable(fs, last'.args[1], last'.args[2], i)]_vars

\* C8 witness: with the first directory holding content, the second allocation for
\* the same request returned the directory with suffix -1
C8_Witness ==
  /\ last.op = "allocate" /\ last.ok
  /\ last.args = <<"paper", "1.21">>
  /\ last.path = Append(ServersDir, "paper-1.21-1")
  /\ <<"paper", "1.21", Append(ServersDir, "paper-1.21")>> \in returned
  /\ Entries(fs, Append(ServersDir, "paper-1.21")) # {}

----------------------------------------------------------------------------
(* Properties of the constructors                                          *)

\* the exception classes that are validation errors
ValidationErrors == {"ValidationError", "PathValidationError", "UnsupportedVersionError"}

\* C5: a constructor given a custom install directory that resolves outside the
\* sandbox root rejects it with a validation error, so a custom directory is
\* accepted only if it resolves inside the sandbox root (stated for the kinds whose
\* constructor can return; the Paper and Leaf constructors are the matter of C6)
C5_CustomDirInsideSandbox ==
  (last.op = "construct" /\ last.args[5] /\ last.args[1] \notin {"paper", "leaf"}) =>
    (IsWithin(Resolve(fs, last.args[6]), Resolve(fs, ServersDir))
       \/ (~last.ok /\ last.err \in ValidationErrors))

\* the versions a kind can support: Spigot and Forge carry their own list, and no
\* Paper or Leaf release lies outside the list of vanilla releases
ClaimedSupported(kind) ==
  CASE kind = "spigot" -> SPIGOT_SUPPORTED_VERSIONS
    [] kind = "forge" -> FORGE_SUPPORTED_VERSIONS
    [] OTHER -> DEFAULT_MINECRAFT_VERSIONS

\* C6: for each of the five kinds, constructing a server whose other arguments pass
\* validation with a version the kind does not support raises
\* UnsupportedVersionError, and no network request has been issued by then
C6_UnsupportedVersionRejected ==
  (/\ last.op = "construct"
   /\ last.err # "ValidationError"
   /\ Strip(last.args[2]) \notin ClaimedSupported(last.args[1])) =>
    (last.err = "UnsupportedVersionError" /\ requests = 0)

----------------------------------------------------------------------------
(* Properties of the installation pipeline                                 *)

\* the step names in the order ensureJava, acquireArtifact, writeProperties,
\* writeStartScript, writeEula
PipelineOrder ==
  <<"Java installation", "Server jar download", "Server properties creation",
    "Start script creation", "EULA file creation">>

\* C1: in every run of install the steps started so far are an initial part of the
\* fixed order (so none is started twice or out of turn), every step before the one
\* started last has returned success, and a completed run has started all five
C1_StepsInFixedOrder ==
  /\ Len(run.started) <= Len(PipelineOrder)
  /\ run.started = SubSeq(PipelineOrder, 1, Len(run.started))
  /\ \A i \in 1..(Len(run.started) - 1) : run.results[i] = "True"
  /\ run.pc = "Completed" =>
       /\ run.started = PipelineOrder
       /\ \A i \in 1..Len(PipelineOrder) : run.results[i] = "True"

\* C1 witness: an installation ran all five steps to completion
C1_Witness ==
  /\ run.pc = "Completed"
  /\ Len(run.started) = 5
  /\ last.op = "step" /\ last.args = <<"EULA file creation">>

\* C2: when a step has returned False or raised, it is the last step started, the
\* run has ended in ServerInstallationError, and the message holds that step's name
C2_FailureAborts ==
  \A i \in 1..Len(run.results) :
     run.results[i] # "True" =>
       /\ i = Len(run.started)
       /\ run.pc = "Failed"
       /\ run.error = "ServerInstallationError"
       /\ Contains(run.message, run.started[i])

\* C2 witness: the second step returned False with three steps still to run
C2_Witness ==
  /\ run.pc = "Failed"
  /\ run.started = <<"Java installation", "Server jar download">>
  /\ run.results = <<"True", "False">>
  /\ Contains(run.message, "Server jar download")

----------------------------------------------------------------------------
(* Properties of the response cache                                        *)

\* the step just taken was a call of get_version_info
LookupStep == ncalls' # ncalls /\ last'.op = "get_version_info"

\* C9: a lookup whose fetch failed leaves no cache entry for the version, and the
\* next lookup of the same version performs the fetch again
C9_FailedFetchNotCached ==
  [][LookupStep =>
       /\ (last'.asked = 1 /\ ~last'.ok) =>
            version_info_key(last'.args[2]) \notin DOMAIN api'[last'.args[1]]
       /\ (/\ last.op = "get_version_info"
           /\ last.asked = 1 /\ ~last.ok
           /\ last'.args = last.args) => last'.asked = 1]_vars

\* C10: once a lookup of a version has succeeded and the cache was not cleared since,
\* every later lookup of that version returns the same payload without a request
C10_SuccessIsReused ==
  [][LookupStep =>
       \A t \in known :
          (t[1] = last'.args[1] /\ t[2] = last'.args[2]) =>
             /\ last'.value = t[3]
             /\ requests' = requests
             /\ last'.asked = 0]_vars

\* C10 witness: after at least two earlier calls, a Paper lookup was answered from
\* the cache with the payload an earlier lookup had fetched
C10_Witness ==
  /\ last.op = "get_version_info"
  /\ last.args[1] = "paper"
  /\ last.ok /\ last.asked = 0
  /\ ncalls >= 3
  /\ <<"paper", last.args[2], last.value>> \in known

----------------------------------------------------------------------------
(* Properties of download_file                                             *)

RECURSIVE SumOf(_)
SumOf(s) == IF s = <<>> THEN 0 ELSE s[1] + SumOf(Tail(s))

\* C11: with a callback and a declared content-length above 0 there is exactly one
\* progress call per chunk written, carrying the running sum of the chunk sizes; with
\* a length of 0 or none there is no call at all; the values never decrease, and when
\* the download succeeds the last one is the size of the destination file.
C11_ProgressIsRunningSum ==
  /\ IF download.has_callback /\ download.total_size > 0
     THEN /\ Len(download.progress) = Len(download.sizes)
          /\ \A i \in 1..Len(download.sizes) :
                download.progress[i] = <<SumOf(SubSeq(download.sizes, 1, i)), download.total_size>>
     ELSE download.progress = <<>>
  /\ \A i \in 1..(Len(download.progress) - 1) :
        download.progress[i][1] <= download.progress[i + 1][1]
  /\ (download.ret = "True" /\ download.progress # <<>>)
        => download.progress[Len(download.progress)][1] = download.written

\* 1000 bytes arrive in four chunks of 250 and are reported as 250, 500, 750, 1000
C11_Witness ==
  /\ download.ret = "True"
  /\ download.written = 1000
  /\ download.progress = <<<<250, 1000>>, <<500, 1000>>, <<750, 1000>>, <<1000, 1000>>>>

\* C12: a download_file call that does not succeed ends with DownloadError, and the
\* failing step leaves the destination file as it was (nothing removed, nothing
\* retried).
C12_EveryFailureIsDownloadError ==
  [][(download'.pc = "done" /\ download.pc # "done" /\ download'.ret # "True")
       => /\ download'.exc = "DownloadError"
          /\ download'.exists = download.exists
          /\ download'.written = download.written
          /\ requests' <= requests + 1]_vars

----------------------------------------------------------------------------
(* Properties of the build executor and of the Spigot cache                *)

\* the child processes the last acquisition ran
BuildEvents == {i \in DOMAIN events : events[i].what \in {"build", "installer"}}

\* C13 (as stated): a build or installer run reports success exactly when the exit
\* code is 0 and the expected artifact is found afterwards, and an acquisition runs
\* the child process at most once.
C13_SuccessIffExitZeroAndArtifact ==
  /\ \A i \in BuildEvents : events[i].ok <=> (events[i].exit = 0 /\ events[i].artifact)
  /\ Cardinality(BuildEvents) <= 1

\* C13 (amended): a build or installer run reports success exactly when the exit code
\* is 0, the expected artifact is found afterwards and putting it at the server jar
\* path raised no error; the server jar is then in the installation directory; a
\* non-zero exit code or a missing artifact each yields failure; an acquisition runs
\* the child process at most once.
C13_SuccessIffExitZeroArtifactAndMoved ==
  /\ \A i \in BuildEvents :
        /\ events[i].ok <=> (events[i].exit = 0 /\ events[i].artifact /\ events[i].moved)
        /\ (events[i].exit # 0 \/ ~events[i].artifact) => ~events[i].ok
        /\ events[i].ok => events[i].jar
        /\ (i = Len(events) /\ events[i].ok) => server_jar_path(server) \in DOMAIN fs
  /\ Cardinality(BuildEvents) <= 1

\* a child process that ended with exit code 0 and left its artifact, which was put
\* in place: the acquisition step succeeded
C13_Witness ==
  \E i \in BuildEvents :
     /\ events[i].ok /\ events[i].exit = 0 /\ events[i].artifact
     /\ server_jar_path(server) \in DOMAIN fs
     /\ run.results = <<"True", "True">>

\* the step of install that obtains the server jar
AcquisitionStep ==
  /\ run.pc = "Running"
  /\ install_steps[run.next] = "Server jar download"
  /\ Len(run'.started) = Len(run.started) + 1

\* C14: a Spigot acquisition consults the cache before anything else; it downloads
\* BuildTools and runs the build only when the cache check found nothing to use; and
\* the cache is written only right after a successful build, with the compiled jar in
\* the installation directory.  No other step writes the cache.
C14_CacheFirstBuildOnMissOnly ==
  [][/\ (AcquisitionStep /\ server.kind = "spigot" /\ server.entered) =>
          LET ev == events'
              At(w) == {i \in DOMAIN ev : ev[i].what = w}
          IN /\ ev # <<>>
             /\ At("cache_check") = {1}
             /\ ev[1].ok => (Len(ev) = 1 /\ requests' = requests)
             /\ \A i \in At("buildtools_download") \cup At("build") : i > 1 /\ ~ev[1].ok
             /\ \A i \in At("cache_write") :
                   i > 1 /\ ev[i - 1].what = "build" /\ ev[i - 1].ok /\ ev[i].jar
             /\ (spigot_cached_jar(server) \in DOMAIN fs' \ DOMAIN fs) => At("cache_write") # {}
     /\ (server.kind = "spigot" /\ spigot_cached_jar(server) \in DOMAIN fs' \ DOMAIN fs)
          => AcquisitionStep]_vars

\* a cache miss, BuildTools downloaded, the build succeeded, the jar cached
C14_Witness ==
  /\ server.kind = "spigot"
  /\ Len(events) = 4
  /\ events[1].what = "cache_check" /\ ~events[1].ok
  /\ events[3].what = "build" /\ events[3].ok
  /\ events[4].what = "cache_write" /\ events[4].ok
  /\ spigot_cached_jar(server) \in DOMAIN fs

----------------------------------------------------------------------------
(* Properties of is_installed                                              *)

\* C15: a call of is_installed() that returns, returns True exactly when the server
\* jar named by get_jar_filename, start.sh and eula.txt all exist in the installation
\* directory.
C15_InstalledIffThreeFilesExist ==
  [][(last'.op = "is_installed" /\ last' # last /\ last'.err = "") =>
       (last'.ok <=>
          /\ Append(server'.install_directory, get_jar_filename(server')) \in DOMAIN fs'
          /\ Append(server'.install_directory, "start.sh") \in DOMAIN fs'
          /\ Append(server'.install_directory, "eula.txt") \in DOMAIN fs')]_vars

\* is_installed() answered True after an install that ran to its end
C15_Witness ==
  /\ last.op = "is_installed"
  /\ last.ok
  /\ run.pc = "Completed"

----------------------------------------------------------------------------
(* Properties of the generated files                                       *)

\* the file a generator writes
GeneratedFile(name) ==
  CASE name = "create_server_properties" -> Append(server.install_directory, "server.properties")
    [] name = "create_start_script" -> start_script_path(server)
    [] name = "create_eula_file" -> Append(server.install_directory, "eula.txt")

\* C16: a call of create_server_properties, create_start_script or create_eula_file
\* on a server for which the same method has already written its file, with the
\* server and the host unchanged, leaves every file as it was: the generated file,
\* and for Forge the run.sh the start script patches.
C16_GeneratorsAreIdempotent ==
  [][(ncalls' = ncalls + 1 /\ GeneratedFile(last'.op) \in DOMAIN files)
       => (files' = files /\ fs' = fs /\ last'.ok)]_vars

\* the Forge start script was created twice over a run.sh whose -Xmx options the
\* first call rewrote
C16_Witness ==
  /\ server.kind = "forge"
  /\ Len(events) >= 2
  /\ events[1] = "create_start_script" /\ events[2] = "create_start_script"
  /\ last.ok
  /\ run_script(server) \in DOMAIN files
  /\ files[run_script(server)] = "java -Xmx2048M -Xmx2048M9 -Xmx-Xmx2048MG\n"

----------------------------------------------------------------------------
(* Properties of the server object over its lifetime                       *)

\* the constructor call of this step
ConstructStep == last.op = "none" /\ last'.op = "construct"

\* C17: a constructed server has 512 <= ram_allocation <= 32768 and
\* 1024 <= server_port <= 65535; the constructor raises ValidationError for a value
\* outside these ranges; and ram_allocation, server_port and version of a constructed
\* server never change.
C17_RangesHoldAndNeverChange ==
  [][/\ server'.state = "built" =>
          /\ 512 <= server'.ram_allocation /\ server'.ram_allocation <= 32768
          /\ 1024 <= server'.server_port /\ server'.server_port <= 65535
     /\ (/\ ConstructStep
         /\ \/ last'.args[3] < 512 \/ last'.args[3] > 32768
            \/ last'.args[4] < 1024 \/ last'.args[4] > 65535)
          => (last'.err = "ValidationError" /\ server'.state = "none")
     /\ server.state = "built" =>
          /\ server'.state = "built"
          /\ server'.ram_allocation = server.ram_allocation
          /\ server'.server_port = server.server_port
          /\ server'.version = server.version]_vars

\* a server built with the smallest ram and the largest port, installed to the end
C17_Witness ==
  /\ server.state = "built"
  /\ server.ram_allocation = 512
  /\ server.server_port = 65535
  /\ run.pc = "Completed"

\* C18: the forge_version of a constructed server changes only in the step that
\* obtains the server jar, only from unset to a concrete value (hence at most once),
\* and only on a Forge server; a forge_version given to the constructor stays.  No
\* Paper or Leaf server object exists whose build could change.
C18_BuildResolvedAtMostOnce ==
  [][/\ (server.state = "built" /\ server'.forge_version # server.forge_version) =>
          /\ server.forge_version = ""
          /\ server'.forge_version # ""
          /\ server.kind = "forge"
          /\ AcquisitionStep
     /\ (ConstructStep /\ server'.state = "built") =>
          /\ server'.forge_version = last'.args[7]
          /\ server'.kind \notin {"paper", "leaf"}]_vars

\* a Forge server built without a forge_version had one selected during acquisition
C18_Witness ==
  /\ server.kind = "forge"
  /\ events # <<>>
  /\ events[1].what = "forge_versions" /\ events[1].ok
  /\ server.forge_version = "51.0.33"
  /\ last.op = "step" /\ last.ok

----------------------------------------------------------------------------
(* Properties of the listings and of the download URL                      *)

\* a call of this step on an API client
QueryStep(op) == ncalls' = ncalls + 1 /\ last'.op = op

\* C19: PaperAPI and LeafAPI, asked for a download URL without a build, list the
\* builds of the version and name the largest of them in the URL; when the list is
\* empty they give no URL, after the one listing request and without a download.
C19_LatestBuildIsMaxOfListing ==
  [][(QueryStep("get_download_url") /\ last'.args[5] = NoBuild) =>
       LET family == last'.args[1]
           version == last'.args[4]
           builds == get_builds(family, "sync", last'.args[3]).value
           Latest(b) == (\E i \in DOMAIN builds : builds[i] = b)
                        /\ (\A i \in DOMAIN builds : builds[i] <= b)
       IN /\ last'.err = ""
          /\ requests' = requests + 1
          /\ download' = download
          /\ builds = <<>> => last'.url = "None"
          /\ builds # <<>> =>
               \E b \in 0..200 :
                  /\ Latest(b)
                  /\ last'.url = (IF family = "paper" THEN "https://api.papermc.io/v2"
                                  ELSE "https://api.leafmc.one")
                                 \o "/projects/" \o family \o "/versions/" \o version
                                 \o "/builds/" \o ToString(b) \o "/downloads/" \o family \o "-"
                                 \o version \o "-" \o ToString(b) \o ".jar"]_vars

\* of the builds 10, 130, 27 the URL names 130
C19_Witness ==
  /\ last.op = "get_download_url"
  /\ last.args[5] = NoBuild
  /\ last.args[3].doc.builds = <<10, 130, 27>>
  /\ last.url = "https://api.papermc.io/v2/projects/paper/versions/1.21/builds/130/downloads/paper-1.21-130.jar"

ListingOps == {"get_available_versions", "get_builds"} \cup FacadeNames

\* C20: a version-list or build-list call of PaperAPI, LeafAPI or
\* MinecraftVersionAPI, sync or async, never raises, and returns the empty sequence
\* when its request fails (no connection, error status, body that is no JSON) or is
\* never made.
C20_FailedListingIsEmpty ==
  [][(ncalls' = ncalls + 1 /\ last'.op \in ListingOps) =>
       /\ last'.err = ""
       /\ (last'.op \in FacadeNames \/ last'.args[1] = "manifest") => last'.value = <<>>
       /\ (last'.op \notin FacadeNames /\ last'.args[3].kind # "json") => last'.value = <<>>]_vars

\* the async build listing of Paper met an error status and returned the empty list
C20_Witness ==
  /\ last.op = "get_builds"
  /\ last.args[1] = "paper" /\ last.args[2] = "async"
  /\ last.args[3].kind = "http_error"
  /\ last.value = <<>>
  /\ last.err = ""

----------------------------------------------------------------------------
(* Properties of the Java version lookup                                   *)

\* C21: when the manifest lists the version and its detail document carries
\* javaVersion.majorVersion = m, get_java_version returns m.
C21_JavaMajorFromMetadata ==
  [][(QueryStep("get_java_version") /\ last'.args[3] # 0) => last'.value = <<last'.args[3]>>]_vars

----------------------------------------------------------------------------
(* Properties of the name validator                                        *)

\* every character of the name is a letter, a digit, ".", "_" or "-"
OnlyNameChars(name) == \A i \in 1..Len(name) : CharAt(name, i) \in NameChars

\* C22: validate_server_name(name) is false exactly for the empty string, a name with
\* a character other than letters, digits, ".", "_", "-", a name starting with ".",
\* a reserved device name in any case, and a name longer than 100 characters.
C22_RejectsExactlyTheListedNames ==
  [][(ncalls' = ncalls + 1 /\ last'.op = "validate_server_name") =>
       LET name == last'.args[1]
       IN ~last'.ok <=> \/ name = ""
                        \/ ~OnlyNameChars(name)
                        \/ name \in {".", ".."} \/ CharAt(name, 1) = "."
                        \/ \E r \in RESERVED_NAMES : Upper(name) = r
                        \/ Len(name) > 100]_vars

----------------------------------------------------------------------------
(* Properties of paths with ".." or "~"                                    *)

\* the candidate has a ".." segment or a "~" somewhere
HasDotDotOrTilde(path) ==
  \E i \in 1..Len(path) : path[i] = ".." \/ Contains(path[i], "~")

\* C23: validate_and_resolve_path raises PathValidationError for every candidate path
\* that contains a ".." segment or "~".
C23_DotDotAndTildeRejected ==
  (last.op = "resolve" /\ HasDotDotOrTilde(last.args[1])) =>
    (~last.ok /\ last.err = "PathValidationError")

----------------------------------------------------------------------------
(* Properties of the allocator on a host without a free instance           *)

\* every instance 0..999 of (kind, version) is a directory with something in it
AllInstancesTaken(f, kind, version) ==
  \A i \in 0..999 :
     LET d == Append(ServersDir, InstanceName(kind, version, i))
     IN d \in DOMAIN f /\ f[d].type = "dir" /\ \E q \in DOMAIN f : Len(q) = Len(d) + 1 /\ IsWithin(q, d)

\* C24: when every instance 0..999 of (kind, version) exists and is not empty,
\* find_available_server_directory ends with PathValidationError after at most 1000
\* probes, hands out no directory, and creates nothing, so no instance from 1000 on
\* is probed or created.
C24_ExhaustionFailsWithinThousandProbes ==
  [][(AllocateStep /\ AllInstancesTaken(fs, last'.args[1], last'.args[2])) =>
       /\ ~last'.ok
       /\ last'.err = "PathValidationError"
       /\ last'.path = <<>>
       /\ returned' = returned
       /\ last'.probed <= 1000
       /\ FirstInstance + last'.probed - 1 < 1000
       /\ fs' = fs]_vars

\* the allocator gave up on the full host after probing the thousand instances
C24_Witness ==
  /\ last.op = "allocate"
  /\ last.args = <<"paper", "1.21">>
  /\ fs = FullFs
  /\ ~last.ok
  /\ last.probed = 1000

----------------------------------------------------------------------------
(* Properties of a failed install                                          *)

\* the step of this transition fails and install raises
FailingStep == run.pc = "Running" /\ run'.pc = "Failed"

C25_WitnessLateFailure ==
  /\ run.pc = "Failed"
  /\ Len(run.results) = 5
  /\ server_jar_path(server) \in DOMAIN fs
  /\ start_script_path(server) \in DOMAIN fs

----------------------------------------------------------------------------
(* Properties of the outcome of install                                    *)

Terminal == {"Completed", "Failed"}

\* a step can return exactly while the run is Running
StepEnabledWhileRunning == run.pc = "Running" <=> ENABLED <<StepReturns>>_vars

\* C26: with every step terminating, a run of install ends, and it ends either
\* Completed, returning True after five successful steps, or Failed, raising
\* ServerInstallationError; there is no other state and no other error, and an ended
\* run stays as it is until install is called again.
C26_RunEndsCompletedOrFailed ==
  /\ [](run.pc \in {"NotStarted", "Running"} \cup Terminal)
  /\ [](run.pc = "Completed" =>
          /\ run.error = ""
          /\ run.results = <<"True", "True", "True", "True", "True">>)
  /\ [](run.pc = "Failed" =>
          /\ run.error = "ServerInstallationError"
          /\ run.results # <<>> => run.results[Len(run.results)] # "True")
  /\ [][(run.pc \in Terminal /\ run' # run) => ncalls' = ncalls + 1]_vars
  /\ (run.pc = "Running") ~> (run.pc \in Terminal)

\* a second call of install on the same server ended Completed after the first had
\* ended Failed
C26_Witness ==
  /\ run.pc = "Completed"
  /\ ncalls = 2
  /\ run.results = <<"True", "True", "True", "True", "True">>

----------------------------------------------------------------------------
(* Properties of two allocations for the same server                       *)

\* C27: the allocator reserves nothing.  When a request was given a directory and
\* the same (kind, version) is requested again before anything was written, the
\* second request is given the same directory; both installations then hold it.
C27_SecondRequestGetsSameDirectory ==
  [][(AllocateStep /\ last.op = "allocate" /\ last.ok /\ last'.args = last.args) =>
       /\ last'.ok
       /\ last'.path = last.path
       /\ IsEmptyDir(fs, last.path)
       /\ fs' = fs]_vars

\* two requests for paper 1.21 were answered one after the other, and only one
\* directory was handed out
C27_Witness ==
  /\ ncalls = 2
  /\ last.op = "allocate" /\ last.ok
  /\ last.args = <<"paper", "1.21">>
  /\ returned = {<<"paper", "1.21", last.path>>}

----------------------------------------------------------------------------
(* Properties of the shared jar cache                                      *)

\* C28: however concurrent Spigot installs of one version interleave, an install
\* that reports success has the whole jar at its server jar path, and an install
\* that copies from the cache reads a cached jar that is whole.
C28_NoPartialJarUnderSharing ==
  \A i \in Installers :
     LET p == installers.proc[i]
     IN /\ (p.pc = "done" /\ p.ret = "True") => p.jar = FullJar
        /\ p.pc = "copy_from_cache" => installers.cached_jar = FullJar

----------------------------------------------------------------------------
(* Properties of the order of resolution and download                      *)

\* C29: in the acquisition of a Forge server the request for the version list, when
\* one is made, is the first thing done; the installer is downloaded and run only
\* with a forge_version selected; and when the resolution fails nothing is
\* downloaded, no installer runs and no file changes.  No Paper or Leaf server
\* object exists whose acquisition could start a download.
C29_ResolutionBeforeDownload ==
  [][/\ (AcquisitionStep /\ server.kind = "forge" /\ server.entered) =>
          LET ev == events'
              At(w) == {i \in DOMAIN ev : ev[i].what = w}
              Started == At("installer_download") \cup At("installer")
          IN /\ At("forge_versions") \subseteq {1}
             /\ server.forge_version = "" => At("forge_versions") = {1}
             /\ \A i \in Started : \A k \in At("forge_versions") : k < i /\ ev[k].ok
             /\ Started # {} => server'.forge_version # ""
             /\ \A i \in At("installer") : i - 1 \in At("installer_download") /\ ev[i - 1].ok
             /\ (\E k \in At("forge_versions") : ~ev[k].ok) =>
                   /\ Started = {}
                   /\ fs' = fs
                   /\ requests' = requests + 1
                   /\ ~last'.ok
     /\ (AcquisitionStep /\ server.entered) => server.kind \notin {"paper", "leaf"}]_vars

\* a Forge server built without a forge_version: the version list was asked for, then
\* the installer was downloaded, then it ran
C29_Witness ==
  /\ server.kind = "forge"
  /\ Len(events) = 3
  /\ events[1].what = "forge_versions" /\ events[1].ok
  /\ events[2].what = "installer_download" /\ events[2].ok
  /\ events[3].what = "installer" /\ events[3].ok
  /\ last.op = "step" /\ last.ok

\* the resolution failed and the acquisition stopped there
C29_WitnessResolutionFailed ==
  /\ server.kind = "forge"
  /\ Len(events) = 1
  /\ events[1].what = "forge_versions" /\ ~events[1].ok
  /\ last.op = "step" /\ ~last.ok

----------------------------------------------------------------------------
(* Properties of the acquisition of a Leaf server                          *)

----------------------------------------------------------------------------
(* Properties of the order of the constructor's checks                     *)

\* C31: a construction that raises UnsupportedVersionError has created no directory
\* by then: the file system is as it was before the constructor was called, also
\* when an install directory was given.
C31_UnsupportedVersionBeforeFilesystem ==
  [][(ConstructStep /\ last'.err = "UnsupportedVersionError") => fs' = fs]_vars

----------------------------------------------------------------------------
(* Properties of the static Java table                                     *)

\* the component at position i of a release given as text, 0 past its end
ReleasePart(version, i) ==
  LET parts == SplitDots(version, "") IN IF i <= Len(parts) THEN ToInt(parts[i]) ELSE 0

\* one dotted release is numerically below another: at the first position where they
\* differ the component of the first is the smaller number
ReleaseBelow(a, b) ==
  \E i \in 1..4 :
     /\ ReleasePart(a, i) < ReleasePart(b, i)
     /\ \A k \in 1..(i - 1) : ReleasePart(a, k) = ReleasePart(b, k)

\* a text of the form N(.N)*
IsDottedRelease(version) ==
  LET parts == SplitDots(version, "") IN \A i \in 1..Len(parts) : IsNumber(parts[i])

\* the Java major version the table names for a version
TableJavaMajor(version) ==
  IF ~IsDottedRelease(version) THEN 8
  ELSE IF ~ReleaseBelow(version, "1.20.5") THEN 21
  ELSE IF ~ReleaseBelow(version, "1.17") THEN 17
  ELSE 8

\* C32: with no metadata for the version (the manifest does not list it), both
\* get_java_version and get_required_java_version answer by the static table under
\* the numeric order of dotted releases: 21 from 1.20.5 on, 17 from 1.17 up to but
\* not including 1.20.5, and 8 for every lower version and for a text that is no
\* release; in that order 1.9 < 1.10 < 1.10.2.
C32_StaticTableNumericOrder ==
  /\ ReleaseBelow("1.9", "1.10") /\ ReleaseBelow("1.10", "1.10.2")
  /\ (last.op \in {"get_java_version", "get_required_java_version"} /\ last.args[3] = 0) =>
        last.value = <<TableJavaMajor(last.args[4])>>

\* 1.20.10 asked about: numerically above 1.20.5, as a text below it
C32_Witness ==
  /\ last.op = "get_java_version"
  /\ last.args[3] = 0
  /\ last.args[4] = "1.20.10"
  /\ last.value = <<21>>

----------------------------------------------------------------------------
(* Properties of the allocator's handling of invalid names                 *)

\* C33: an allocation asked for with a server type or version that is no valid name
\* fails after a single attempt: get_server_directory is called once and no further
\* instance number is tried.
C33_InvalidNameNotRetried ==
  (/\ last.op = "allocate"
   /\ (~validate_server_name(last.args[1]) \/ ~validate_server_name(last.args[2]))) =>
    (~last.ok /\ last.probed = 1)

----------------------------------------------------------------------------
(* Properties of the Java step                                             *)

\* an executable of major version v is on the host: in a JVM directory or on PATH
JavaAvailable(j, v) == v \in j.homes \/ (j.on_path /\ j.path_version = v)

\* the step of this name ran
StepRan(step_name) ==
  run.pc = "Running" /\ last'.op = "step" /\ last'.args = <<step_name>>

\* C34: the Java step succeeds only if, after at most one installation attempt, an
\* executable of the major version the server requires is on the host; when there is
\* none the step fails and the run ends Failed without the acquisition step.
C34_JavaStepNeedsRequiredMajor ==
  [][StepRan("Java installation") =>
       LET required == get_required_java_version(server)
       IN /\ last'.ok => JavaAvailable(java', required)
          /\ ~JavaAvailable(java', required) =>
                (run'.pc = "Failed" /\ run'.started = <<"Java installation">>)]_vars

----------------------------------------------------------------------------
(* Properties of the install_directory property                            *)

\* once the object has an installation directory, every step leaves it in place
DirectoryStays ==
  (server.state = "built" /\ server.has_dir) =>
     (server'.has_dir /\ server'.install_directory = server.install_directory)

\* this step read install_directory on an object that had none: the allocator ran
AllocatorCalled ==
  /\ server.state = "built"
  /\ ~server.has_dir
  /\ last'.op \in {"install", "is_installed"}

\* an earlier read of install_directory on this object ran the allocator and raised
AllocationFailedBefore ==
  /\ ~server.has_dir
  /\ last.op \in {"install", "is_installed"}
  /\ last.err = "ServerInstallationError"

\* C35 as stated: the directory of an object stays the one of its first access, and
\* the allocator runs at most once for the object.
C35_AllocatorAtMostOncePerObject ==
  [][/\ DirectoryStays
     /\ AllocatorCalled => ~AllocationFailedBefore]_vars

\* C35 amended: the directory of an object stays the one its first successful access
\* gave, also when it has content by then, so every step of every run of the object
\* works in that directory; and once the allocator has given the object a directory
\* it is not run for the object again.
C35_DirectoryFixedOnceAllocated ==
  [][/\ DirectoryStays
     /\ (server.state = "built" /\ server.has_dir) => returned' = returned
     /\ AllocatorCalled => returned = {}
     /\ Cardinality(returned') <= 1]_vars

\* a second install of the object began in the directory allocated for the first,
\* which holds the server jar by now
C35_Witness ==
  /\ ncalls = 2
  /\ run.pc = "Running"
  /\ returned = {<<server.kind, server.version, server.install_directory>>}
  /\ server_jar_path(server) \in DOMAIN fs

\* the first install could not allocate a directory and the second tried again
C35_WitnessRetry ==
  /\ ncalls = 2
  /\ ~server.has_dir
  /\ last.op = "install" /\ last.err = "ServerInstallationError"

----------------------------------------------------------------------------
(* Properties of a completed install                                       *)

\* C36: after an install that returned True, of any kind of server and with the
\* forge version given or selected during the run, is_installed() is true: the jar
\* named by get_jar_filename with the version now selected, start.sh, eula.txt and
\* server.properties exist in the installation directory.
C36_CompletedInstallIsInstalled ==
  run.pc = "Completed" =>
    /\ is_installed(fs, server)
    /\ Exists(fs, Append(server.install_directory, get_jar_filename(server)))
    /\ Exists(fs, Append(server.install_directory, "start.sh"))
    /\ Exists(fs, Append(server.install_directory, "eula.txt"))
    /\ Exists(fs, Append(server.install_directory, "server.properties"))
    /\ server.kind = "forge" => server.forge_version # ""

\* a Forge install completed with a forge version that only the listing names, and
\* is_installed() answered True
C36_Witness ==
  /\ run.pc = "Completed"
  /\ server.kind = "forge"
  /\ server.forge_version = "51.0.8"
  /\ last.op = "is_installed" /\ last.ok

\* a Spigot install completed
C36_WitnessSpigot ==
  /\ run.pc = "Completed"
  /\ server.kind = "spigot"
  /\ last.op = "is_installed" /\ last.ok

----------------------------------------------------------------------------
(* Properties of the jar names of Paper and Leaf                           *)

\* the URL of build b of a version of Paper or Leaf
UrlOfBuild(kind, version, b) ==
  (IF kind = "paper" THEN "https://api.papermc.io/v2" ELSE "https://api.leafmc.one")
    \o "/projects/" \o kind \o "/versions/" \o version \o "/builds/" \o ToString(b)
    \o "/downloads/" \o kind \o "-" \o version \o "-" \o ToString(b) \o ".jar"

----------------------------------------------------------------------------
(* Properties of cache failures                                            *)

\* compile_spigot finds a Java executable to run BuildTools with
HasBuildJava ==
  LET java_exe == get_java_executable(java, 8) IN ~java_exe.raised /\ java_exe.exe # ""

\* C38: in a Spigot acquisition, a cached jar that could not be copied into the
\* installation directory is followed by the BuildTools download and, after it and
\* with a Java executable at hand, the build, and the acquisition succeeds exactly
\* when the build does; and a jar that
\* could not be written to the cache after a successful build leaves the acquisition
\* successful and the server jar in the installation directory.
C38_CacheFailuresDoNotFailAcquisition ==
  [][(AcquisitionStep /\ server.kind = "spigot" /\ server.entered) =>
       LET ev == events'
           At(w) == {i \in DOMAIN ev : ev[i].what = w}
           jar == server_jar_path(server)
       IN /\ (spigot_cached_jar(server) \in DOMAIN fs /\ ~ev[1].ok) =>
               /\ Len(ev) >= 2
               /\ ev[2].what = "buildtools_download"
               /\ requests' = requests + 1
               /\ ev[2].ok => IF HasBuildJava THEN Len(ev) >= 3 /\ ev[3].what = "build"
                               ELSE Len(ev) = 2
               /\ last'.ok <=> (\E i \in At("build") : ev[i].ok)
          /\ \A i \in At("cache_write") :
               ~ev[i].ok =>
                 /\ last'.ok
                 /\ i > 1 /\ ev[i - 1].what = "build" /\ ev[i - 1].ok /\ ev[i - 1].jar
                 /\ jar \in DOMAIN fs' /\ fs'[jar] = File]_vars

\* the cached jar could not be copied, BuildTools was downloaded, the build succeeded,
\* the new jar could not be written to the cache, and the step succeeded
C38_Witness ==
  /\ server.kind = "spigot"
  /\ Len(events) = 4
  /\ events[1].what = "cache_check" /\ ~events[1].ok
  /\ spigot_cached_jar(server) \in DOMAIN fs
  /\ events[3].what = "build" /\ events[3].ok
  /\ events[4].what = "cache_write" /\ ~events[4].ok
  /\ last.op = "step" /\ last.ok
  /\ server_jar_path(server) \in DOMAIN fs

----------------------------------------------------------------------------
(* Properties of the working directory                                     *)

\* call i of compile_spigot returns in this step
CompileReturns(i) == compile.call[i].pc # "done" /\ compile'.call[i].pc = "done"

\* C39: when a compile_spigot call that changed the working directory returns, by
\* whichever way (True, False after a non-zero exit code or a missing jar, or False
\* after an exception while spawning, reading or moving), the working directory of
\* the process is the one it was when the call was made; a call that returns without
\* having changed the directory leaves it alone.
C39_WorkingDirectoryRestored ==
  [][\A i \in Compiles :
        CompileReturns(i) =>
          /\ compile.call[i].changed => compile'.cwd = compile.call[i].entry
          /\ ~compile'.call[i].changed => compile'.cwd = compile.cwd]_vars

\* a call that had entered its build directory returned False after an exception and
\* the process is back in the directory the call was made in
C39_Witness ==
  \E i \in Compiles :
     /\ compile.call[i].pc = "done"
     /\ compile.call[i].changed
     /\ compile.call[i].ret = "False"
     /\ compile.call[i].lines = 1
     /\ compile.cwd = compile.call[i].entry
     /\ compile.cwd \in StartDirs

====
